---- MODULE Spec2Model ----
(***************************************************************************)
(* Model of the AI orchestrator core of src/main.py: the pending-operation *)
(* slots, the artifact extractor, the execution sandbox, the               *)
(* self-modification applier, the memory bundle and its persistence, the   *)
(* orchestration engine and the autonomous loop.                           *)
(*                                                                         *)
(* Texts are sequences of tokens.  A token is an atomic piece of text: one *)
(* of the six literal markers, a run of whitespace, or a fragment that     *)
(* contains no marker and cannot form one by concatenation.  Positions     *)
(* found by str.find and the slice text[start:end] are therefore the same  *)
(* at token granularity as at character granularity.  The empty Python     *)
(* string "" is the empty sequence << >>.                                  *)
(*                                                                         *)
(* Timestamps and the conversation_context length stored in pattern and    *)
(* evolution entries are not modelled; the transcript is represented by    *)
(* the messages, calls and executions of the last keyed action (trace).    *)
(*                                                                         *)
(* The backends are modelled by what their providers do with a request:    *)
(* return a text or raise (src/ai_connectors.py).                          *)
(*                                                                         *)
(* The specifications share the variables:                                 *)
(*   Spec            the interactive loop: requests of every action type,  *)
(*                   the keys E, B, P, S, D, replies that stage scripts;   *)
(*   SpecSelfMod     the loop with replies that stage self-modifications   *)
(*                   and with writes of the memory file that can fail;     *)
(*   SpecExtract     extract_and_store_code alone, on every text of        *)
(*                   bounded length over the markers;                      *)
(*   SpecSandbox     script requests and runs, with scripts that start     *)
(*                   processes of their own;                               *)
(*   SpecPersist     self-modifications across restarts of the process;    *)
(*   SpecBackend     every action that calls a backend, with providers     *)
(*                   that can fail;                                        *)
(*   SpecEvolution   applies that succeed and fail, script runs, clears;   *)
(*   SpecProvenance  stagings by two backends, applies, runs, clears;      *)
(*   SpecQueue       the autonomous loop over several activations;         *)
(*   SpecSpan        replies whose extracted span is empty, then the keys  *)
(*                   B, P, S;                                              *)
(*   SpecTasks       one reflection step on every reply of bounded length  *)
(*                   over bullets, numbers, whitespace and words.          *)
(***************************************************************************)
EXTENDS Integers, Sequences, FiniteSets, TLC

VARIABLES
    pending_bash_code,      \* src/main.py:25
    pending_python_code,    \* src/main.py:26
    pending_self_mod,       \* src/main.py:27
    pending_code_source,    \* src/main.py:28
    ai_memory,              \* src/main.py:31
    learned_patterns,       \* src/main.py:32
    custom_functions,       \* src/main.py:33
    evolution_log,          \* src/main.py:34
    autonomous_mode,        \* src/main.py:21
    autonomous_task_queue,  \* src/main.py:22
    project_state,          \* src/main.py:20, as the number of appended entries
    memory_file,            \* the file ai_memory.pkl
    temp_files,             \* number of temporary .py files left on disk
    running,                \* number of processes started by scripts and left running
    toggles,                \* number of times the key E was pressed
    starts,                 \* number of times the process was started again
    last_key,               \* the keyed action that ran last
    trace                   \* what the last keyed action displayed, called and ran

vars == << pending_bash_code, pending_python_code, pending_self_mod,
           pending_code_source, ai_memory, learned_patterns, custom_functions,
           evolution_log, autonomous_mode, autonomous_task_queue, project_state,
           memory_file, temp_files, running, toggles, starts, last_key,
           trace >>

----------------------------------------------------------------------------
(* Bounds of the model.                                                    *)

MaxTextLen == 4        \* tokens of a text handed to the extractor alone
MaxRequests == 1       \* handled requests (entries appended to project_state)
MaxToggles == 3        \* presses of the key E
MaxTempFiles == 1      \* temporary files left on disk
MaxEvolution == 2      \* entries of evolution_log
MaxSelfModRequests == 2  \* requests made on the self-modification path
MaxStarts == 1         \* restarts of the process
MaxRunning == 1        \* processes left running
MaxSandboxRequests == 3  \* requests for a script
MaxBackendRequests == 2  \* requests made with providers that can fail
MaxProvenanceRequests == 3  \* requests made in the provenance runs
MaxEvolutionRequests == 3  \* requests made in the evolution-log runs
MaxQueueRequests == 3  \* requests made in the task-queue runs
MaxSpanRequests == 2   \* requests made in the empty-span runs
MaxReplyLen == 5       \* tokens of a reply parsed into tasks

----------------------------------------------------------------------------
(* Texts.                                                                  *)

WS == " "
NL == "<newline>"

IsSpace(tok) == tok \in {WS, NL}

OpenMarker(kind) ==
    CASE kind = "bash" -> "@Bash"
      [] kind = "python" -> "@Python"
      [] kind = "selfmod" -> "@SelfMod"

CloseMarker(kind) ==
    CASE kind = "bash" -> "@EndBash"
      [] kind = "python" -> "@EndPython"
      [] kind = "selfmod" -> "@EndSelfMod"

Kinds == {"bash", "python", "selfmod"}

Markers == {OpenMarker(k) : k \in Kinds} \cup {CloseMarker(k) : k \in Kinds}

\* `marker in text`
Contains(text, marker) == \E i \in 1..Len(text) : text[i] = marker

\* text.find(marker): the first position of the marker, counted from 1
\* (Python counts from 0 and gives -1 when the marker is absent, here 0).
Find(text, marker) ==
    IF Contains(text, marker)
    THEN CHOOSE i \in 1..Len(text) :
             /\ text[i] = marker
             /\ \A j \in 1..(i - 1) : text[j] # marker
    ELSE 0

\* str.strip(): leading and trailing whitespace removed.
RECURSIVE LStrip(_)
LStrip(text) ==
    IF text # << >> /\ IsSpace(Head(text)) THEN LStrip(Tail(text)) ELSE text

RECURSIVE RStrip(_)
RStrip(text) ==
    IF text # << >> /\ IsSpace(text[Len(text)])
    THEN RStrip(SubSeq(text, 1, Len(text) - 1))
    ELSE text

Strip(text) == RStrip(LStrip(text))

\* response_text[start:end] with start = find(open) + len(open) and
\* end = find(close): the tokens strictly between the two positions, empty
\* when the close marker does not come after the open marker.
Between(text, open, close) ==
    SubSeq(text, Find(text, open) + 1, Find(text, close) - 1)

----------------------------------------------------------------------------
(* Text fragments of scripts.                                              *)

\* len(fragment), in characters
TokLen(tok) ==
    CASE tok = "print(1)" -> 8
      [] tok = "print(long)" -> 100
      [] tok = "print(99)" -> 99
      [] tok \in {WS, NL} -> 1
      [] tok = "@Bash" -> 5
      [] tok = "@Python" -> 7
      [] tok = "@SelfMod" -> 8
      [] tok = "@EndBash" -> 8
      [] tok = "@EndPython" -> 10
      [] tok = "@EndSelfMod" -> 11
      [] OTHER -> 3

\* "print" in fragment
TokHasPrint(tok) == tok \in {"print(1)", "print(long)", "print(99)"}

RECURSIVE StrLen(_)
StrLen(text) == IF text = << >> THEN 0 ELSE TokLen(Head(text)) + StrLen(Tail(text))

HasPrint(text) == \E i \in 1..Len(text) : TokHasPrint(text[i])

----------------------------------------------------------------------------
(* The program state as one value, so that a handler's calls compose.      *)

St ==
    [ pending_bash_code |-> pending_bash_code,
      pending_python_code |-> pending_python_code,
      pending_self_mod |-> pending_self_mod,
      pending_code_source |-> pending_code_source,
      ai_memory |-> ai_memory,
      learned_patterns |-> learned_patterns,
      custom_functions |-> custom_functions,
      evolution_log |-> evolution_log,
      autonomous_mode |-> autonomous_mode,
      autonomous_task_queue |-> autonomous_task_queue,
      project_state |-> project_state,
      memory_file |-> memory_file,
      temp_files |-> temp_files,
      running |-> running,
      toggles |-> toggles,
      starts |-> starts,
      trace |-> << >> ]

\* update_history(message): the message joins the transcript
update_history(s, message) ==
    [s EXCEPT !.trace = Append(@, [op |-> "say", msg |-> message])]

----------------------------------------------------------------------------
(* Backend gateway (src/ai_connectors.py).                                 *)

\* What a provider does with a request: return a text, or raise an
\* exception e; the text of a raised result is str(e).
Returned(text) == << "returned", text >>

Raised == << "raised", << "boom" >> >>

Fails(result) == result[1] = "raised"

TextOf(result) == result[2]

Returns(texts) == { Returned(text) : text \in texts }

call_gemini(result) ==
    IF Fails(result) THEN << "Gemini Error: " >> \o TextOf(result) ELSE TextOf(result)

call_gpt(result) ==
    IF Fails(result) THEN << "GPT Error: " >> \o TextOf(result) ELSE TextOf(result)

call_claude_unnamed(result) ==
    IF Fails(result) THEN << "Error: " >> \o TextOf(result) ELSE TextOf(result)

call_claude(result) ==
    IF Fails(result) THEN << "Claude Error: " >> \o TextOf(result) ELSE TextOf(result)

Call(backend, result) ==
    CASE backend = "gemini" -> call_gemini(result)
      [] backend = "gpt" -> call_gpt(result)
      [] backend = "claude" -> call_claude(result)

\* A call of a backend through its connector: the prompt handed over,
\* whether the provider raised, and what the connector returned.
Called(s, backend, prompt, result) ==
    [s EXCEPT !.trace =
         Append(@, [op |-> "call", who |-> backend, prompt |-> prompt,
                    raised |-> Fails(result),
                    returned |-> Call(backend, result)])]

----------------------------------------------------------------------------
(* Artifact extractor.                                                     *)

\* A body staged in the slot of a kind, with the body it replaced there.
Staged(s, kind, body, replaced) ==
    [s EXCEPT !.trace = Append(@, [op |-> "stage", kind |-> kind, body |-> body,
                                   replaced |-> replaced])]

\* lines 188-195
ExtractBash(s, response_text, source_ai) ==
    IF Contains(response_text, "@Bash") /\ Contains(response_text, "@EndBash")
    THEN LET body == Strip(Between(response_text, "@Bash", "@EndBash"))
         IN  update_history(
                 Staged([s EXCEPT !.pending_bash_code = body,
                                  !.pending_code_source = source_ai],
                        "bash", body, s.pending_bash_code),
                 "BASH CODE READY")
    ELSE s

\* lines 198-205 assigning the slot only when the body is not empty
ExtractPython_skips_empty(s, response_text, source_ai) ==
    IF Contains(response_text, "@Python") /\ Contains(response_text, "@EndPython")
    THEN LET body == Strip(Between(response_text, "@Python", "@EndPython"))
         IN  IF body = << >> THEN s
             ELSE update_history(
                      Staged([s EXCEPT !.pending_python_code = body,
                                       !.pending_code_source = source_ai],
                             "python", body, s.pending_python_code),
                      "PYTHON CODE READY")
    ELSE s

\* lines 198-205 with `or` between the two marker tests
ExtractPython_either_marker(s, response_text, source_ai) ==
    IF Contains(response_text, "@Python") \/ Contains(response_text, "@EndPython")
    THEN LET body == Strip(Between(response_text, "@Python", "@EndPython"))
         IN  update_history(
                 Staged([s EXCEPT !.pending_python_code = body,
                                  !.pending_code_source = source_ai],
                        "python", body, s.pending_python_code),
                 "PYTHON CODE READY")
    ELSE s

\* lines 198-205
ExtractPython(s, response_text, source_ai) ==
    IF Contains(response_text, "@Python") /\ Contains(response_text, "@EndPython")
    THEN LET body == Strip(Between(response_text, "@Python", "@EndPython"))
         IN  update_history(
                 Staged([s EXCEPT !.pending_python_code = body,
                                  !.pending_code_source = source_ai],
                        "python", body, s.pending_python_code),
                 "PYTHON CODE READY")
    ELSE s

\* lines 208-216
ExtractSelfMod(s, response_text, source_ai) ==
    IF Contains(response_text, "@SelfMod") /\ Contains(response_text, "@EndSelfMod")
    THEN LET body == Strip(Between(response_text, "@SelfMod", "@EndSelfMod"))
         IN  update_history(
                 Staged([s EXCEPT !.pending_self_mod = body,
                                  !.pending_code_source = source_ai],
                        "selfmod", body, s.pending_self_mod),
                 "SELF-MODIFICATION READY")
    ELSE s

extract_and_store_code(s, response_text, source_ai) ==
    LET s0 == [s EXCEPT !.trace = Append(@, [op |-> "extract", who |-> source_ai,
                                             text |-> response_text])]
        s1 == ExtractBash(s0, response_text, source_ai)
        s2 == ExtractPython(s1, response_text, source_ai)
    IN  ExtractSelfMod(s2, response_text, source_ai)

----------------------------------------------------------------------------
(* Execution sandbox.                                                      *)

\* What subprocess.run can do with a script: return with exit code 0,
\* return with a nonzero exit code, raise TimeoutExpired, raise another
\* exception (the launch failed).  On a timeout subprocess.run kills the
\* process it spawned and waits for it; "timeout_tree" is the timeout of a
\* script whose process had started a process of its own, which nothing
\* kills.
RunOutcomes == {"exit0", "nonzero", "timeout", "timeout_tree", "error"}

\* The outcomes of scripts that start no process of their own.
OwnProcessOnly == {"exit0", "nonzero", "timeout", "error", "tmpfile_error"}

TimedOut(outcome) == outcome \in {"timeout", "timeout_tree"}

\* subprocess.run(.., timeout=30) raising TimeoutExpired
Expired(s, outcome) ==
    IF outcome = "timeout_tree" THEN [s EXCEPT !.running = @ + 1] ELSE s

\* Script-A also fails before the launch when the temporary file cannot be
\* created ("tmpfile_error": nothing is run), and after a run that returned
\* when the temporary file cannot be removed ("exit0_unlinked": the script
\* exited with code 0 after removing the file it was run from).
PythonOutcomes == RunOutcomes \cup {"tmpfile_error", "exit0_unlinked"}

\* A run or an apply of the staged artifact of a kind, and how it ended.
Executed(s, kind, body, outcome) ==
    [s EXCEPT !.trace = Append(@, [op |-> "exec", kind |-> kind,
                                   body |-> body, outcome |-> outcome])]

\* A report of a run: the message and what it shows after it (the
\* captured stdout, the captured stderr, str(e), or nothing).
Reported(s, message, shows) ==
    [s EXCEPT !.trace = Append(@, [op |-> "say", msg |-> message, shows |-> shows])]

\* lines 292-308: the run itself, before the slot is cleared
RunBash(s, outcome) ==
    LET s1 == Executed(update_history(s, "Executing bash code"),
                       "bash", s.pending_bash_code, outcome)
    IN  CASE outcome = "exit0" -> Reported(s1, "Bash execution successful", "stdout")
          [] outcome = "nonzero" -> Reported(s1, "Bash execution failed", "stderr")
          [] TimedOut(outcome) ->
                 Reported(Expired(s1, outcome), "Bash execution timed out", "nothing")
          [] outcome = "error" -> Reported(s1, "Bash execution error", "str(e)")

\* run_bash_code ending with clear_pending_code's assignments
run_bash_code_clears_all(s, outcome) ==
    IF s.pending_bash_code = << >>
    THEN update_history(s, "No bash code pending")
    ELSE [RunBash(s, outcome) EXCEPT !.pending_bash_code = << >>,
                                     !.pending_python_code = << >>]

run_bash_code(s, outcome) ==
    IF s.pending_bash_code = << >>
    THEN update_history(s, "No bash code pending")
    ELSE [RunBash(s, outcome) EXCEPT !.pending_bash_code = << >>]

\* lines 319-341: the run itself, before the slot is cleared
RunPython(s, outcome) ==
    LET s0 == Executed(update_history(s, "Executing Python code"),
                       "python", s.pending_python_code, outcome)
        \* NamedTemporaryFile(delete=False): the file stays until unlinked
        s1 == IF outcome = "tmpfile_error" THEN s0
              ELSE [s0 EXCEPT !.temp_files = @ + 1]
    IN  \* os.unlink is reached only when subprocess.run returned
        CASE outcome = "exit0" ->
                 Reported([s1 EXCEPT !.temp_files = @ - 1],
                          "Python execution successful", "stdout")
          [] outcome = "nonzero" ->
                 Reported([s1 EXCEPT !.temp_files = @ - 1],
                          "Python execution failed", "stderr")
          [] TimedOut(outcome) ->
                 Reported(Expired(s1, outcome), "Python execution timed out", "nothing")
          [] outcome \in {"error", "tmpfile_error"} ->
                 Reported(s1, "Python execution error", "str(e)")
          [] outcome = "exit0_unlinked" ->
                 \* the script removed the file: os.unlink raises at line 332,
                 \* before the exit code is looked at
                 Reported([s1 EXCEPT !.temp_files = @ - 1],
                          "Python execution error", "str(e)")

\* run_python_code with the slot cleared inside the try block: a timeout
\* leaves the body staged
run_python_code_clear_in_try(s, outcome) ==
    IF s.pending_python_code = << >>
    THEN update_history(s, "No Python code pending")
    ELSE IF TimedOut(outcome) THEN RunPython(s, outcome)
    ELSE [RunPython(s, outcome) EXCEPT !.pending_python_code = << >>]

run_python_code(s, outcome) ==
    IF s.pending_python_code = << >>
    THEN update_history(s, "No Python code pending")
    ELSE [RunPython(s, outcome) EXCEPT !.pending_python_code = << >>]

\* lines 345-352 without line 351
clear_pending_code_keeps_source(s) ==
    update_history(
        [s EXCEPT !.pending_bash_code = << >>,
                  !.pending_python_code = << >>,
                  !.pending_self_mod = << >>],
        "All pending operations cleared")

clear_pending_code(s) ==
    update_history(
        [s EXCEPT !.pending_bash_code = << >>,
                  !.pending_python_code = << >>,
                  !.pending_self_mod = << >>,
                  !.pending_code_source = ""],
        "All pending operations cleared")

----------------------------------------------------------------------------
(* Memory bundle and its persistence.                                      *)

\* A mapping (a Python dict) is a set of <<key, value>> pairs with one pair
\* per key.
Keys(mapping) == {p[1] : p \in mapping}

\* dict.update(other)
DictUpdate(mapping, other) ==
    {p \in mapping : p[1] \notin Keys(other)} \cup other

Bundle(s) ==
    [ memory |-> s.ai_memory,
      patterns |-> s.learned_patterns,
      functions |-> s.custom_functions,
      evolution |-> s.evolution_log ]

NoFile == [state |-> "absent"]

\* What writing ai_memory.pkl can do: succeed; raise in open (the file is
\* left as it was); raise in pickle.dump after open(.., "wb") truncated the
\* file (what is left is not a bundle).
WriteOutcomes == {"ok", "error", "partial"}

Damaged == [state |-> "damaged"]

save_ai_memory(s, write) ==
    LET s1 == [s EXCEPT !.trace = Append(@, [op |-> "save", outcome |-> write])]
    IN  CASE write = "ok" ->
                 update_history(
                     [s1 EXCEPT !.memory_file = [state |-> "saved", data |-> Bundle(s)]],
                     "AI memory saved successfully")
          [] write = "error" -> update_history(s1, "Could not save AI memory")
          [] write = "partial" ->
                 update_history([s1 EXCEPT !.memory_file = Damaged],
                                "Could not save AI memory")

\* What reading ai_memory.pkl can do: pickle.load returns the saved data, or
\* raises (it always raises on a file that holds no whole bundle).
ReadOutcomes == {"ok", "error"}

\* lines 106-118; data.get(key, default) per field
load_ai_memory(s, read) ==
    IF s.memory_file.state = "absent" THEN s
    ELSE IF s.memory_file.state = "damaged" \/ read = "error"
    THEN update_history(s, "Could not load AI memory")
    ELSE LET data == s.memory_file.data
         IN  update_history(
                 [s EXCEPT !.ai_memory = data.memory,
                           !.learned_patterns = data.patterns,
                           !.custom_functions = data.functions,
                           !.evolution_log = data.evolution],
                 "AI memory loaded successfully")

log_evolution(s, modification_type, description, source_ai, write) ==
    save_ai_memory(
        [s EXCEPT !.evolution_log =
                      Append(@, [type |-> modification_type,
                                 description |-> description,
                                 source |-> source_ai])],
        write)

----------------------------------------------------------------------------
(* Self-modification bodies.                                               *)

\* JSON documents a backend can put between @SelfMod and @EndSelfMod, each
\* one token, with the value json.loads gives for it.
\*   has            the keys of the object
\*   memory_update  the mapping under "memory_update"; mu_mapping is FALSE
\*                  when the value is not a mapping (dict.update raises)
\*   new_function   nf_complete is FALSE when "name" or "code" is missing
JsonDocs ==
    { "{}", "{np}", "{mu}", "{nf}", "{mu,np,nf}", "{mu,np,nf:noname}",
      "{mu:5}", "[]", "5" }

JsonObject(has, mu_mapping, nf_complete) ==
    [ type |-> "object", has |-> has,
      mu_mapping |-> mu_mapping, memory_update |-> {<<"k", "v">>},
      new_pattern |-> "p",
      nf_complete |-> nf_complete, name |-> "f", code |-> "c" ]

JsonValue(doc) ==
    CASE doc = "{}" -> JsonObject({}, TRUE, TRUE)
      [] doc = "{np}" -> JsonObject({"new_pattern"}, TRUE, TRUE)
      [] doc = "{mu}" -> JsonObject({"memory_update"}, TRUE, TRUE)
      [] doc = "{nf}" -> JsonObject({"new_function"}, TRUE, TRUE)
      [] doc = "{mu,np,nf}" ->
             JsonObject({"memory_update", "new_pattern", "new_function"}, TRUE, TRUE)
      [] doc = "{mu,np,nf:noname}" ->
             JsonObject({"memory_update", "new_pattern", "new_function"}, TRUE, FALSE)
      [] doc = "{mu:5}" -> JsonObject({"memory_update"}, FALSE, TRUE)
      [] doc = "[]" -> [type |-> "array"]
      [] doc = "5" -> [type |-> "number"]

\* json.loads(body) succeeds exactly when the body is one JSON document
\* (whitespace around it is allowed).
IsJson(body) == Len(Strip(body)) = 1 /\ Strip(body)[1] \in JsonDocs

JsonLoads(body) == JsonValue(Strip(body)[1])

\* `key in modification`: a key test on an object, an element test on an
\* array (never true here), a TypeError on a number.
InRaises(v) == v.type = "number"
In(key, v) == v.type = "object" /\ key \in v.has

\* Statements of raw self-modification code, one per token, run by exec in
\* order against ai_memory, learned_patterns and custom_functions.
\*   "ai_memory['k']='w'"   stores w under k
\*   "pass"                 does nothing
\*   anything else          raises
StmtRaises(tok) == tok \notin {"ai_memory['k']='w'", "pass", WS, NL}

StmtEffect(s, tok) ==
    IF tok = "ai_memory['k']='w'"
    THEN [s EXCEPT !.ai_memory = DictUpdate(@, {<<"k", "w">>})]
    ELSE s

\* exec(body, exec_globals): the state reached and whether it raised
RECURSIVE Exec(_, _)
Exec(s, body) ==
    IF body = << >> THEN [s |-> s, raised |-> FALSE]
    ELSE IF StmtRaises(Head(body)) THEN [s |-> s, raised |-> TRUE]
    ELSE Exec(StmtEffect(s, Head(body)), Tail(body))

\* text[:100]: the longest prefix of whole tokens within 100 characters
RECURSIVE Prefix100(_)
Prefix100(text) ==
    IF StrLen(text) <= 100 THEN text
    ELSE Prefix100(SubSeq(text, 1, Len(text) - 1))

----------------------------------------------------------------------------
(* Self-modification applier.                                              *)

\* lines 231-233; the result carries whether the step raised
ApplyMemoryUpdate(s, v) ==
    IF InRaises(v) THEN [s |-> s, raised |-> TRUE]
    ELSE IF ~In("memory_update", v) THEN [s |-> s, raised |-> FALSE]
    ELSE IF ~v.mu_mapping THEN [s |-> s, raised |-> TRUE]
    ELSE [s |-> update_history(
                    [s EXCEPT !.ai_memory = DictUpdate(@, v.memory_update)],
                    "Memory updated"),
          raised |-> FALSE]

\* lines 235-241
ApplyNewPattern(s, v) ==
    IF ~In("new_pattern", v) THEN [s |-> s, raised |-> FALSE]
    ELSE [s |-> update_history(
                    [s EXCEPT !.learned_patterns =
                                  Append(@, [pattern |-> v.new_pattern,
                                             learned_from |-> s.pending_code_source])],
                    "New pattern learned"),
          raised |-> FALSE]

\* lines 243-247 with the key test of lines 235 copied
ApplyNewFunction_wrong_key(s, v) ==
    IF ~In("new_pattern", v) THEN [s |-> s, raised |-> FALSE]
    ELSE IF ~v.nf_complete THEN [s |-> s, raised |-> TRUE]
    ELSE [s |-> update_history(
                    [s EXCEPT !.custom_functions =
                                  DictUpdate(@, {<<v.name, v.code>>})],
                    "New function added"),
          raised |-> FALSE]

\* lines 243-247
ApplyNewFunction(s, v) ==
    IF ~In("new_function", v) THEN [s |-> s, raised |-> FALSE]
    ELSE IF ~v.nf_complete THEN [s |-> s, raised |-> TRUE]
    ELSE [s |-> update_history(
                    [s EXCEPT !.custom_functions =
                                  DictUpdate(@, {<<v.name, v.code>>})],
                    "New function added"),
          raised |-> FALSE]

\* lines 229-254 and 279-280 with the changes undone when a field raises
ApplyStructured_rolls_back(s, write) ==
    LET v == JsonLoads(s.pending_self_mod)
        r1 == ApplyMemoryUpdate(s, v)
        r2 == IF r1.raised THEN r1 ELSE ApplyNewPattern(r1.s, v)
        r3 == IF r2.raised THEN r2 ELSE ApplyNewFunction(r2.s, v)
    IN  IF r3.raised
        THEN update_history(s, "Self-modification error")
        ELSE log_evolution(r3.s, "self_modification", s.pending_self_mod,
                           s.pending_code_source, write)

\* lines 229-254 and 279-280: the structured branch
ApplyStructured(s, write) ==
    LET v == JsonLoads(s.pending_self_mod)
        r1 == ApplyMemoryUpdate(s, v)
        r2 == IF r1.raised THEN r1 ELSE ApplyNewPattern(r1.s, v)
        r3 == IF r2.raised THEN r2 ELSE ApplyNewFunction(r2.s, v)
    IN  IF r3.raised
        THEN update_history(r3.s, "Self-modification error")
        ELSE log_evolution(r3.s, "self_modification", s.pending_self_mod,
                           s.pending_code_source, write)

\* lines 256-277 with the log_evolution call moved after the inner try
ApplyRawCode_logs_failure(s, write) ==
    LET r == Exec(s, s.pending_self_mod)
    IN  log_evolution(
            IF r.raised
            THEN update_history(r.s, "Self-modification failed")
            ELSE update_history(r.s, "Self-modification code executed successfully"),
            "code_execution", Prefix100(s.pending_self_mod),
            s.pending_code_source, write)

\* lines 256-277: the body is not JSON and is run as code
ApplyRawCode(s, write) ==
    LET r == Exec(s, s.pending_self_mod)
    IN  IF r.raised
        THEN update_history(r.s, "Self-modification failed")
        ELSE log_evolution(
                 update_history(r.s, "Self-modification code executed successfully"),
                 "code_execution", Prefix100(s.pending_self_mod),
                 s.pending_code_source, write)

\* apply_self_modification without line 282
apply_self_modification_keeps_slot(s, write1, write2) ==
    IF s.pending_self_mod = << >>
    THEN update_history(s, "No self-modification pending")
    ELSE LET s0 == update_history(s, "Applying self-modification")
             s1 == Executed(s0, "selfmod", s.pending_self_mod, "applied")
             s2 == IF IsJson(s.pending_self_mod)
                   THEN ApplyStructured(s1, write1)
                   ELSE ApplyRawCode(s1, write1)
         IN  save_ai_memory(s2, write2)

\* apply_self_modification without line 283
apply_self_modification_no_final_save(s, write1, write2) ==
    IF s.pending_self_mod = << >>
    THEN update_history(s, "No self-modification pending")
    ELSE LET s0 == update_history(s, "Applying self-modification")
             s1 == Executed(s0, "selfmod", s.pending_self_mod, "applied")
             s2 == IF IsJson(s.pending_self_mod)
                   THEN ApplyStructured(s1, write1)
                   ELSE ApplyRawCode(s1, write1)
         IN  [s2 EXCEPT !.pending_self_mod = << >>]

\* write1 is the outcome of the save inside log_evolution (when it is
\* reached), write2 of the save that ends the operation.
apply_self_modification(s, write1, write2) ==
    IF s.pending_self_mod = << >>
    THEN update_history(s, "No self-modification pending")
    ELSE LET s0 == update_history(s, "Applying self-modification")
             s1 == Executed(s0, "selfmod", s.pending_self_mod, "applied")
             s2 == IF IsJson(s.pending_self_mod)
                   THEN ApplyStructured(s1, write1)
                   ELSE ApplyRawCode(s1, write1)
         IN  save_ai_memory([s2 EXCEPT !.pending_self_mod = << >>], write2)

----------------------------------------------------------------------------
(* Autonomous loop.                                                        *)

SeedTask == << "Analyze the current system and suggest first improvement" >>

\* response.split('\n'): the lines of a text
RECURSIVE SplitLines(_, _)
SplitLines(text, line) ==
    IF text = << >> THEN << line >>
    ELSE IF Head(text) = NL THEN << line >> \o SplitLines(Tail(text), << >>)
    ELSE SplitLines(Tail(text), Append(line, Head(text)))

\* The bullet character U+2022
BULLET == "<bullet>"

\* Fragments made only of characters of the set '-<bullet>1234567890. '
Strippable(tok) == tok \in {"-", BULLET, "1.", "2.", "3", WS}

\* str.lstrip('-<bullet>1234567890. ')
RECURSIVE LStripBullets(_)
LStripBullets(text) ==
    IF text # << >> /\ Strippable(Head(text)) THEN LStripBullets(Tail(text)) ELSE text

\* line 98 accepting the start of any numbered item
StartsWithBullet_any_number(line) ==
    line # << >> /\ Head(line) \in {"-", BULLET, "1.", "2.", "3"}

\* line.startswith('-') or line.startswith('<bullet>') or line.startswith('1.')
StartsWithBullet(line) ==
    line # << >> /\ Head(line) \in {"-", BULLET, "1."}

\* lines 97-101: the tasks a reply yields, in order
RECURSIVE TasksOfLines(_)
TasksOfLines(lines) ==
    IF lines = << >> THEN << >>
    ELSE LET line == Head(lines)
             task == LStripBullets(Strip(line))
         IN  IF Strip(line) # << >> /\ StartsWithBullet(line) /\ task # << >>
             THEN << task >> \o TasksOfLines(Tail(lines))
             ELSE TasksOfLines(Tail(lines))

ParseTasks(response) == TasksOfLines(SplitLines(response, << >>))

\* line 74: the length below which a staged script-A counts as safe
AutoThreshold == 100

\* line 74 without its length condition
AutoSafe_no_length(s) ==
    /\ s.pending_python_code # << >>
    /\ HasPrint(s.pending_python_code)

\* line 74: the test that lets the loop run script-A without a key
AutoSafe(s) ==
    /\ s.pending_python_code # << >>
    /\ HasPrint(s.pending_python_code)
    /\ StrLen(s.pending_python_code) < AutoThreshold

\* line 46 with pop() in place of pop(0)
Popped_last(s) ==
    [s EXCEPT !.autonomous_task_queue = SubSeq(@, 1, Len(@) - 1),
              !.trace = Append(@, [op |-> "pop",
                                   task |-> s.autonomous_task_queue[
                                                Len(s.autonomous_task_queue)]])]

\* line 46: task = autonomous_task_queue.pop(0)
Popped(s) ==
    [s EXCEPT !.autonomous_task_queue = Tail(@),
              !.trace = Append(@, [op |-> "pop",
                                   task |-> Head(s.autonomous_task_queue)])]

\* autonomous_agent_think with line 74 testing only a script the task reply
\* staged
autonomous_agent_think_own_script_only(s, result, outcome) ==
    IF ~s.autonomous_mode THEN s
    ELSE IF s.autonomous_task_queue # << >>
    THEN LET s1 == update_history(Popped(s), "Autonomous Agent executing task")
             response == call_gpt(result)
             s2 == update_history(Called(s1, "gpt", << "autonomous_prompt" >>, result),
                                  "Autonomous Agent Response")
             s3 == extract_and_store_code(s2, response, "Autonomous-Agent")
         IN  IF AutoSafe(s3) /\ Contains(response, "@Python")
             THEN run_python_code(
                      update_history(s3, "Autonomous Agent auto-executing safe Python code"),
                      outcome)
             ELSE s3
    ELSE LET s1 == update_history(s, "Autonomous Agent thinking of new improvements")
             response == call_gpt(result)
             s2 == Called(s1, "gpt", << "autonomous_prompt" >>, result)
             s3 == [s2 EXCEPT !.autonomous_task_queue = @ \o ParseTasks(response)]
         IN  update_history(s3, "Autonomous Agent queued new tasks")

\* autonomous_agent_think with line 71 also in the else branch
autonomous_agent_think_extracts_always(s, result, outcome) ==
    IF ~s.autonomous_mode THEN s
    ELSE IF s.autonomous_task_queue # << >>
    THEN LET s1 == update_history(Popped(s), "Autonomous Agent executing task")
             response == call_gpt(result)
             s2 == update_history(Called(s1, "gpt", << "autonomous_prompt" >>, result),
                                  "Autonomous Agent Response")
             s3 == extract_and_store_code(s2, response, "Autonomous-Agent")
         IN  IF AutoSafe(s3)
             THEN run_python_code(
                      update_history(s3, "Autonomous Agent auto-executing safe Python code"),
                      outcome)
             ELSE s3
    ELSE LET s1 == update_history(s, "Autonomous Agent thinking of new improvements")
             response == call_gpt(result)
             s2 == extract_and_store_code(
                       Called(s1, "gpt", << "autonomous_prompt" >>, result),
                       response, "Autonomous-Agent")
             s3 == [s2 EXCEPT !.autonomous_task_queue = @ \o ParseTasks(response)]
         IN  update_history(s3, "Autonomous Agent queued new tasks")

\* result is what the provider does when call_gpt asks it, outcome what
\* running script-A does when the step runs it.
autonomous_agent_think(s, result, outcome) ==
    IF ~s.autonomous_mode THEN s
    ELSE IF s.autonomous_task_queue # << >>
    THEN LET s1 == update_history(Popped(s), "Autonomous Agent executing task")
             response == call_gpt(result)
             s2 == update_history(Called(s1, "gpt", << "autonomous_prompt" >>, result),
                                  "Autonomous Agent Response")
             s3 == extract_and_store_code(s2, response, "Autonomous-Agent")
         IN  IF AutoSafe(s3)
             THEN run_python_code(
                      update_history(s3, "Autonomous Agent auto-executing safe Python code"),
                      outcome)
             ELSE s3
    ELSE LET s1 == update_history(s, "Autonomous Agent thinking of new improvements")
             response == call_gpt(result)
             s2 == Called(s1, "gpt", << "autonomous_prompt" >>, result)
             s3 == [s2 EXCEPT !.autonomous_task_queue = @ \o ParseTasks(response)]
         IN  update_history(s3, "Autonomous Agent queued new tasks")

----------------------------------------------------------------------------
(* Orchestration engine.                                                   *)

\* Decision documents the deciding backend can reply with, each one token,
\* and the value json.loads gives for them.  has_action and has_prompt say
\* whether decision.get finds the key (None otherwise).
DecisionDocs ==
    { "{respond,prompt:py}", "{gpt,prompt}", "{claude,prompt}",
      "{search_web,prompt:py}", "{prompt:py}", "{respond}", "[decision]" }

PyBlock == << "@Python", "print(1)", "@EndPython" >>

Decision(has_action, action, has_prompt, prompt) ==
    [ type |-> "object", has_action |-> has_action, action |-> action,
      has_prompt |-> has_prompt, prompt |-> prompt ]

DecisionValue(doc) ==
    CASE doc = "{respond,prompt:py}" -> Decision(TRUE, "respond_to_user", TRUE, PyBlock)
      [] doc = "{gpt,prompt}" -> Decision(TRUE, "delegate_to_gpt", TRUE, << "ask" >>)
      [] doc = "{claude,prompt}" -> Decision(TRUE, "delegate_to_claude", TRUE, << "ask" >>)
      [] doc = "{search_web,prompt:py}" -> Decision(TRUE, "search_web", TRUE, PyBlock)
      [] doc = "{prompt:py}" -> Decision(FALSE, "", TRUE, PyBlock)
      [] doc = "{respond}" -> Decision(TRUE, "respond_to_user", FALSE, << >>)
      [] doc = "[decision]" -> [type |-> "array"]

\* The code-block fences: three backquotes followed by json, and three
\* backquotes alone.
FENCE_JSON == "<fence>json"
FENCE == "<fence>"

\* text.replace(fence, ''): every occurrence removed
RemoveAll(text, fences) == SelectSeq(text, LAMBDA tok : tok \notin fences)

\* Removing the three backquotes leaves the word json of a json fence.
WithoutBackquotes(text) ==
    [i \in 1..Len(text) |-> IF text[i] = FENCE_JSON THEN "json" ELSE text[i]]

\* lines 396-400
StripFences(decision_json_str) ==
    LET json_str == Strip(decision_json_str)
        a == IF json_str # << >> /\ Head(json_str) = FENCE_JSON
             THEN Strip(RemoveAll(json_str, {FENCE_JSON, FENCE}))
             ELSE json_str
    IN  IF a # << >> /\ Head(a) = FENCE
        THEN Strip(RemoveAll(WithoutBackquotes(a), {FENCE}))
        ELSE a

IsDecisionJson(json_str) == Len(json_str) = 1 /\ json_str[1] \in DecisionDocs

\* decision.get("prompt"): None when the key is missing
PromptOf(decision) == IF decision.has_prompt THEN decision.prompt ELSE << "None" >>

\* What the deciding backend answered: no JSON at all, JSON that is not an
\* object, or an object with its action (None when the key is missing).
Decided(s, json_str) ==
    LET answer ==
            IF ~IsDecisionJson(json_str) THEN "not json"
            ELSE IF DecisionValue(json_str[1]).type # "object" THEN "not an object"
            ELSE IF ~DecisionValue(json_str[1]).has_action THEN "None"
            ELSE DecisionValue(json_str[1]).action
    IN  [s EXCEPT !.trace = Append(@, [op |-> "decision", action |-> answer,
                                       json_str |-> json_str])]

\* lines 378-425 with the specialists of lines 407-416 exchanged
Orchestrate_swapped(s, decision_result, specialist_result) ==
    LET decision_json_str == call_gemini(decision_result)
        json_str == StripFences(decision_json_str)
        s1 == Decided(Called(update_history(s, "Orchestrator analyzing"), "gemini",
                             << "orchestrator_prompt" >>, decision_result),
                      json_str)
        failed(t) == update_history(t, "Error parsing decision")
    IN  IF ~IsDecisionJson(json_str) THEN failed(s1)
        ELSE LET decision == DecisionValue(json_str[1])
             IN  IF decision.type # "object" THEN failed(s1)
                 ELSE IF decision.has_action /\ decision.action = "delegate_to_claude"
                 THEN extract_and_store_code(
                          update_history(
                              Called(update_history(s1, "Delegating to GPT-4o"), "gpt",
                                     PromptOf(decision), specialist_result),
                              "GPT-4o Response"),
                          call_gpt(specialist_result), "GPT-4o")
                 ELSE IF decision.has_action /\ decision.action = "delegate_to_gpt"
                 THEN extract_and_store_code(
                          update_history(
                              Called(update_history(s1, "Delegating to Claude"), "claude",
                                     PromptOf(decision), specialist_result),
                              "Claude Response"),
                          call_claude(specialist_result), "Claude")
                 ELSE LET s2 == update_history(s1, "Orchestrator Response")
                      IN  IF ~decision.has_prompt THEN failed(s2)
                          ELSE extract_and_store_code(s2, decision.prompt, "Orchestrator")

\* lines 378-425.  decision_result is what the deciding provider does and
\* specialist_result what the specialist's provider does when one is called.
Orchestrate(s, decision_result, specialist_result) ==
    LET decision_json_str == call_gemini(decision_result)
        json_str == StripFences(decision_json_str)
        s1 == Decided(Called(update_history(s, "Orchestrator analyzing"), "gemini",
                             << "orchestrator_prompt" >>, decision_result),
                      json_str)
        failed(t) == update_history(t, "Error parsing decision")
    IN  IF ~IsDecisionJson(json_str) THEN failed(s1)
        ELSE LET decision == DecisionValue(json_str[1])
             IN  \* decision.get on a value that is not an object raises
                 IF decision.type # "object" THEN failed(s1)
                 ELSE IF decision.has_action /\ decision.action = "delegate_to_gpt"
                 THEN extract_and_store_code(
                          update_history(
                              Called(update_history(s1, "Delegating to GPT-4o"), "gpt",
                                     PromptOf(decision), specialist_result),
                              "GPT-4o Response"),
                          call_gpt(specialist_result), "GPT-4o")
                 ELSE IF decision.has_action /\ decision.action = "delegate_to_claude"
                 THEN extract_and_store_code(
                          update_history(
                              Called(update_history(s1, "Delegating to Claude"), "claude",
                                     PromptOf(decision), specialist_result),
                              "Claude Response"),
                          call_claude(specialist_result), "Claude")
                 ELSE LET s2 == update_history(s1, "Orchestrator Response")
                      IN  \* the membership test on None raises inside the try block
                          IF ~decision.has_prompt THEN failed(s2)
                          ELSE extract_and_store_code(s2, decision.prompt, "Orchestrator")

ActionTypes ==
    { "orchestrate", "force_gpt", "force_claude", "request_python",
      "request_bash", "context_gemini", "context_gpt", "context_claude" }

\* The backend an action type calls directly, the source it credits and
\* what it announces.
Direct(action_type) ==
    CASE action_type = "force_gpt" ->
             [prompt |-> "user_input", who |-> "gpt", source |-> "GPT-4o", before |-> "Forcing delegation to GPT-4o",
              after |-> "GPT-4o Direct"]
      [] action_type = "force_claude" ->
             [prompt |-> "user_input", who |-> "claude", source |-> "Claude", before |-> "Forcing delegation to Claude",
              after |-> "Claude Direct"]
      [] action_type = "request_python" ->
             [prompt |-> "prefixed_prompt", who |-> "gpt", source |-> "GPT-4o", before |-> "Requesting Python script from GPT-4o",
              after |-> "GPT-4o Python Script"]
      [] action_type = "request_bash" ->
             [prompt |-> "prefixed_prompt", who |-> "gpt", source |-> "GPT-4o", before |-> "Requesting Bash script from GPT-4o",
              after |-> "GPT-4o Bash Script"]
      [] action_type = "context_gemini" ->
             [prompt |-> "context_prompt", who |-> "gemini", source |-> "Gemini", before |-> "Sending FULL CONTEXT to Gemini",
              after |-> "Gemini (Full Context+Memory)"]
      [] action_type = "context_gpt" ->
             [prompt |-> "context_prompt", who |-> "gpt", source |-> "GPT-4o", before |-> "Sending FULL CONTEXT to GPT-4o",
              after |-> "GPT-4o (Full Context+Memory)"]
      [] action_type = "context_claude" ->
             [prompt |-> "context_prompt", who |-> "claude", source |-> "Claude", before |-> "Sending FULL CONTEXT to Claude",
              after |-> "Claude (Full Context+Memory)"]

\* lines 427-472
Route(s, action_type, specialist_result) ==
    LET d == Direct(action_type)
    IN  extract_and_store_code(
            update_history(Called(update_history(s, d.before), d.who, << d.prompt >>,
                                  specialist_result),
                           d.after),
            Call(d.who, specialist_result), d.source)

\* lines 373-474 with a return in the except clause of lines 422-425
HandleRequest_return_in_except(s, action_type, decision_result, specialist_result) ==
    LET s1 == IF action_type \notin {"context_gemini", "context_gpt", "context_claude"}
              THEN update_history(s, "You")
              ELSE s
        s2 == IF action_type = "orchestrate"
              THEN Orchestrate(s1, decision_result, specialist_result)
              ELSE Route(s1, action_type, specialist_result)
    IN  IF \E i \in 1..Len(s2.trace) :
               s2.trace[i] = [op |-> "say", msg |-> "Error parsing decision"]
        THEN s2
        ELSE [s2 EXCEPT !.project_state = @ + 1,
                        !.trace = Append(@, [op |-> "project_state"])]

\* lines 373-474: the request up to and including the project-state entry
HandleRequest(s, action_type, decision_result, specialist_result) ==
    LET s1 == IF action_type \notin {"context_gemini", "context_gpt", "context_claude"}
              THEN update_history(s, "You")
              ELSE s
        s2 == IF action_type = "orchestrate"
              THEN Orchestrate(s1, decision_result, specialist_result)
              ELSE Route(s1, action_type, specialist_result)
    IN  [s2 EXCEPT !.project_state = @ + 1,
                   !.trace = Append(@, [op |-> "project_state"])]

\* user_input is the stripped text of the input buffer; auto_result and
\* auto_outcome are the inputs of the autonomous step that may follow.
handle_submission(s, action_type, user_input, decision_result, specialist_result, auto_result, auto_outcome) ==
    IF user_input = << >> THEN s
    ELSE LET s1 == HandleRequest(s, action_type, decision_result, specialist_result)
         IN  IF s1.autonomous_mode
             THEN autonomous_agent_think(s1, auto_result, auto_outcome)
             ELSE s1

\* lines 521-532
toggle_autonomous(s, auto_result, auto_outcome) ==
    LET s1 == [s EXCEPT !.autonomous_mode = ~@, !.toggles = @ + 1]
    IN  IF s1.autonomous_mode
        THEN autonomous_agent_think(
                 [update_history(s1, "AUTONOMOUS AGENT ACTIVATED")
                     EXCEPT !.autonomous_task_queue = Append(@, SeedTask)],
                 auto_result, auto_outcome)
        ELSE update_history(s1, "Autonomous agent deactivated")

----------------------------------------------------------------------------
(* Inputs: what the backends reply, what the user types.                   *)

\* Replies of a backend asked for work or for tasks: a task list, script
\* blocks, a block whose close marker comes first, a reply staging all three
\* kinds.
ScriptReplies ==
    { << "-", WS, "fix", NL, "note" >>,
      << "@Python", WS, "print(99)", NL, "@EndPython" >>,
      << "@Python", "print(long)", "@EndPython" >>,
      << "@EndPython", "@Python" >>,
      << "@Bash", "ls", "@EndBash", "@Python", "x=1", "@EndPython",
         "@SelfMod", "5", "@EndSelfMod" >> }

\* Replies that carry a self-modification.
SelfModReplies ==
    { << "@SelfMod", "{}", "@EndSelfMod" >>,
      << "@SelfMod", "{np}", "@EndSelfMod" >>,
      << "@SelfMod", "{mu,np,nf}", "@EndSelfMod" >>,
      << "@SelfMod", "{mu,np,nf:noname}", "@EndSelfMod" >>,
      << "@SelfMod", "5", "@EndSelfMod" >>,
      << "@SelfMod", "[]", "@EndSelfMod" >>,
      << "@SelfMod", "{mu:5}", "@EndSelfMod" >>,
      << "@SelfMod", "ai_memory['k']='w'", "@EndSelfMod" >>,
      << "@SelfMod", "ai_memory['k']='w'", NL, "raise", "@EndSelfMod" >> }

\* Replies of the deciding backend.
DecisionReplies ==
    { << doc >> : doc \in DecisionDocs } \cup
    { << FENCE_JSON, NL, "{respond,prompt:py}", NL, FENCE >> }

\* What the deciding provider does: reply, or fail.
DecisionResults == Returns(DecisionReplies) \cup {Raised}

\* The result standing for a backend that is not called.
NotCalled == Returned(<< >>)

\* The stripped text of the input buffer: empty, or a request.
UserInputs == { << >>, << "go" >> }

----------------------------------------------------------------------------
(* The state machine.  The interactive loop dispatches one keyed action at *)
(* a time to completion (last_key names it, trace holds what it did) and   *)
(* then waits for the next key (last_key = "none").                        *)

Init ==
    /\ pending_bash_code = << >>
    /\ pending_python_code = << >>
    /\ pending_self_mod = << >>
    /\ pending_code_source = ""
    /\ ai_memory = {}
    /\ learned_patterns = << >>
    /\ custom_functions = {}
    /\ evolution_log = << >>
    /\ autonomous_mode = FALSE
    /\ autonomous_task_queue = << >>
    /\ project_state = 0
    /\ memory_file = NoFile
    /\ temp_files = 0
    /\ running = 0
    /\ toggles = 0
    /\ starts = 0
    /\ last_key = "none"
    /\ trace = << >>

Idle == last_key = "none"

\* The keyed action `key` ran to completion and left the state `result`.
Commit(result, key) ==
    \E s \in {result} :
        /\ s.temp_files <= MaxTempFiles
        /\ s.running <= MaxRunning
        /\ Len(s.evolution_log) <= MaxEvolution
        /\ pending_bash_code' = s.pending_bash_code
        /\ pending_python_code' = s.pending_python_code
        /\ pending_self_mod' = s.pending_self_mod
        /\ pending_code_source' = s.pending_code_source
        /\ ai_memory' = s.ai_memory
        /\ learned_patterns' = s.learned_patterns
        /\ custom_functions' = s.custom_functions
        /\ evolution_log' = s.evolution_log
        /\ autonomous_mode' = s.autonomous_mode
        /\ autonomous_task_queue' = s.autonomous_task_queue
        /\ project_state' = s.project_state
        /\ memory_file' = s.memory_file
        /\ temp_files' = s.temp_files
        /\ running' = s.running
        /\ toggles' = s.toggles
        /\ starts' = s.starts
        /\ last_key' = key
        /\ trace' = s.trace

\* The inputs an autonomous step can consume in state s: what the
\* specialist's provider does and, when the step goes on to run script-A,
\* what the run does.
AutoInputs(s, results) ==
    IF ~s.autonomous_mode THEN { << NotCalled, "exit0" >> }
    ELSE { << r, o >> \in results \X (PythonOutcomes \cap OwnProcessOnly) :
             o # "exit0" =>
                 /\ s.autonomous_task_queue # << >>
                 /\ AutoSafe(extract_and_store_code(s, call_gpt(r),
                                                    "Autonomous-Agent")) }

\* Whether the request reaches a backend whose reply goes to the extractor.
CallsSpecialist(action_type, decision) ==
    \/ action_type # "orchestrate"
    \/ LET json_str == StripFences(call_gemini(decision))
       IN  /\ IsDecisionJson(json_str)
           /\ DecisionValue(json_str[1]).type = "object"
           /\ DecisionValue(json_str[1]).has_action
           /\ DecisionValue(json_str[1]).action \in {"delegate_to_gpt", "delegate_to_claude"}

\* F1, F2, F3, 1, 2, 3, Q, W
Submit(action_type, results, budget) ==
    /\ Idle
    /\ \E user_input \in UserInputs :
        \/ \* line 369: nothing typed, the handler returns at once
           /\ user_input = << >>
           /\ handle_submission(St, action_type, user_input, NotCalled, NotCalled,
                                NotCalled, "exit0") = St
           /\ UNCHANGED vars
        \/ /\ user_input # << >>
           /\ project_state < budget
           /\ \E decision \in IF action_type = "orchestrate"
                              THEN DecisionResults ELSE { NotCalled } :
              \E reply \in IF CallsSpecialist(action_type, decision)
                           THEN results ELSE { NotCalled } :
              \E s1 \in { HandleRequest(St, action_type, decision, reply) } :
              \E a \in AutoInputs(s1, results) :
                  Commit(handle_submission(St, action_type, user_input, decision,
                                           reply, a[1], a[2]),
                         action_type)

KeyE(results) ==
    /\ Idle
    /\ toggles < MaxToggles
    /\ \E a \in AutoInputs([St EXCEPT !.autonomous_mode = ~@,
                                      !.autonomous_task_queue = Append(@, SeedTask)],
                           results) :
           Commit(toggle_autonomous(St, a[1], a[2]), "E")

KeyB(outcomes) ==
    /\ Idle
    /\ \E outcome \in RunOutcomes \cap outcomes :
           /\ outcome # "exit0" => pending_bash_code # << >>
           /\ Commit(run_bash_code(St, outcome), "B")

KeyP(outcomes) ==
    /\ Idle
    /\ \E outcome \in PythonOutcomes \cap outcomes :
           /\ outcome # "exit0" => pending_python_code # << >>
           /\ Commit(run_python_code(St, outcome), "P")

KeyS(writes) ==
    /\ Idle
    /\ \E write1 \in writes, write2 \in writes :
           /\ write2 # "ok" => pending_self_mod # << >>
           /\ write1 # "ok" => pending_self_mod # << >>
           /\ Commit(apply_self_modification(St, write1, write2), "S")

KeyD ==
    /\ Idle
    /\ Commit(clear_pending_code(St), "D")

\* The action is over; the loop waits for the next key.
AwaitKey ==
    /\ ~Idle
    /\ last_key' = "none"
    /\ trace' = << >>
    /\ UNCHANGED << pending_bash_code, pending_python_code, pending_self_mod,
                    pending_code_source, ai_memory, learned_patterns,
                    custom_functions, evolution_log, autonomous_mode,
                    autonomous_task_queue, project_state, memory_file,
                    temp_files, running, toggles, starts >>

\* The whole orchestrator, its backends replying with scripts and task
\* lists, the memory file always writable, the scripts starting no process
\* of their own.
Next ==
    \/ \E action_type \in ActionTypes : Submit(action_type, Returns(ScriptReplies), MaxRequests)
    \/ KeyE(Returns(ScriptReplies))
    \/ KeyB(OwnProcessOnly)
    \/ KeyP(OwnProcessOnly)
    \/ KeyS({"ok"})
    \/ KeyD
    \/ AwaitKey

Spec == Init /\ [][Next]_vars

\* The self-modification path: the user asks a backend directly, applies or
\* denies what it staged; writing the memory file may fail.
DirectTypes == {"force_gpt", "force_claude", "context_gemini"}

NextSelfMod ==
    \/ \E action_type \in DirectTypes :
           Submit(action_type, Returns(SelfModReplies), MaxSelfModRequests)
    \/ KeyS(WriteOutcomes)
    \/ KeyD
    \/ AwaitKey

SpecSelfMod == Init /\ [][NextSelfMod]_vars

----------------------------------------------------------------------------
(* The extractor alone, on every text of at most MaxTextLen tokens over    *)
(* the six markers, whitespace and one other fragment, from slots that are *)
(* empty or hold an artifact staged earlier.                               *)

TextTokens == Markers \cup {WS, "x"}

Texts == UNION { [1..n -> TextTokens] : n \in 0..MaxTextLen }

EarlierBodies == { << >>, << "old" >> }

InitExtract ==
    /\ pending_bash_code \in EarlierBodies
    /\ pending_python_code \in EarlierBodies
    /\ pending_self_mod \in EarlierBodies
    /\ pending_code_source =
           IF pending_bash_code = << >> /\ pending_python_code = << >>
              /\ pending_self_mod = << >>
           THEN "" ELSE "Claude"
    /\ ai_memory = {}
    /\ learned_patterns = << >>
    /\ custom_functions = {}
    /\ evolution_log = << >>
    /\ autonomous_mode = FALSE
    /\ autonomous_task_queue = << >>
    /\ project_state = 0
    /\ memory_file = NoFile
    /\ temp_files = 0
    /\ running = 0
    /\ toggles = 0
    /\ starts = 0
    /\ last_key = "none"
    /\ trace = << >>

\* The text handed to the extractor and the slots it found.
Input(s, text) ==
    [s EXCEPT !.trace = Append(@, [op |-> "input", text |-> text,
                                   bash |-> s.pending_bash_code,
                                   python |-> s.pending_python_code,
                                   selfmod |-> s.pending_self_mod,
                                   source |-> s.pending_code_source])]

Extract ==
    /\ Idle
    /\ \E text \in Texts :
           Commit(extract_and_store_code(Input(St, text), text, "GPT-4o"), "extract")

NextExtract == Extract

SpecExtract == InitExtract /\ [][NextExtract]_vars

\* Replies that carry one script.
SandboxReplies ==
    { << "@Python", "print(1)", "@EndPython" >>,
      << "@Bash", "ls", "@EndBash" >> }

\* The execution sandbox: the user asks for a script (Q, W), runs it or
\* denies it; a script may start processes of its own.
NextSandbox ==
    \/ \E action_type \in {"request_python", "request_bash"} :
           Submit(action_type, Returns(SandboxReplies), MaxSandboxRequests)
    \/ KeyB(RunOutcomes)
    \/ KeyP(PythonOutcomes)
    \/ KeyD
    \/ AwaitKey

SpecSandbox == Init /\ [][NextSandbox]_vars

\* A new process: the globals of lines 18-34, with what the last process
\* left on disk.
Fresh(s) ==
    [ pending_bash_code |-> << >>,
      pending_python_code |-> << >>,
      pending_self_mod |-> << >>,
      pending_code_source |-> "",
      ai_memory |-> {},
      learned_patterns |-> << >>,
      custom_functions |-> {},
      evolution_log |-> << >>,
      autonomous_mode |-> FALSE,
      autonomous_task_queue |-> << >>,
      project_state |-> 0,
      memory_file |-> s.memory_file,
      temp_files |-> s.temp_files,
      running |-> s.running,
      toggles |-> s.toggles,
      starts |-> s.starts + 1,
      trace |-> << >> ]

\* lines 586-588: the process exits and is started again
Start(reads) ==
    /\ Idle
    /\ starts < MaxStarts
    /\ \E read \in reads : Commit(load_ai_memory(Fresh(St), read), "start")

\* The self-modification path with a memory file that can always be
\* written and read, across restarts of the process.
PersistReplies ==
    { << "@SelfMod", "{mu,np,nf}", "@EndSelfMod" >>,
      << "@SelfMod", "{mu,np,nf:noname}", "@EndSelfMod" >>,
      << "@SelfMod", "ai_memory['k']='w'", "@EndSelfMod" >>,
      << "@SelfMod", "ai_memory['k']='w'", NL, "raise", "@EndSelfMod" >> }

NextPersist ==
    \/ Submit("force_gpt", Returns(PersistReplies), MaxSelfModRequests)
    \/ KeyS({"ok"})
    \/ KeyD
    \/ Start({"ok"})
    \/ AwaitKey

SpecPersist == Init /\ [][NextPersist]_vars

\* What a provider does in the backend gateway's runs: it replies with a
\* script, or it fails.
BackendResults ==
    Returns({ << "@Python", WS, "print(99)", NL, "@EndPython" >> }) \cup {Raised}

\* Every action that calls a backend, with providers that can fail.
NextBackend ==
    \/ \E action_type \in ActionTypes :
           Submit(action_type, BackendResults, MaxBackendRequests)
    \/ KeyE(BackendResults)
    \/ KeyD
    \/ AwaitKey

SpecBackend == Init /\ [][NextBackend]_vars

\* The evolution log: self-modifications that apply, that fail half-way and
\* that fail at once, and scripts.
EvolutionReplies ==
    { << "@SelfMod", "{np}", "@EndSelfMod" >>,
      << "@SelfMod", "{mu,np,nf:noname}", "@EndSelfMod" >>,
      << "@SelfMod", "5", "@EndSelfMod" >>,
      << "@SelfMod", "[]", "@EndSelfMod" >>,
      << "@SelfMod", "ai_memory['k']='w'", "@EndSelfMod" >>,
      << "@SelfMod", "ai_memory['k']='w'", NL, "raise", "@EndSelfMod" >>,
      << "@Python", "print(1)", "@EndPython" >>,
      << "@Bash", "ls", "@EndBash" >> }

NextEvolution ==
    \/ Submit("force_gpt", Returns(EvolutionReplies), MaxEvolutionRequests)
    \/ KeyS({"ok", "error"})
    \/ KeyB({"exit0", "nonzero"})
    \/ KeyP({"exit0", "nonzero"})
    \/ KeyD
    \/ AwaitKey

SpecEvolution == Init /\ [][NextEvolution]_vars

\* The autonomous loop over several activations: replies that list two
\* tasks, carry a script the loop runs by itself, carry a script too long
\* for that, or carry nothing.
QueueReplies ==
    { << "-", WS, "fix", NL, BULLET, WS, "tidy" >>,
      << "@Python", WS, "print(99)", NL, "@EndPython" >>,
      << "@Python", "print(long)", "@EndPython" >>,
      << "note" >> }

NextQueue ==
    \/ Submit("force_gpt", Returns(QueueReplies), MaxQueueRequests)
    \/ KeyE(Returns(QueueReplies))
    \/ KeyD
    \/ AwaitKey

SpecQueue == Init /\ [][NextQueue]_vars

\* Task parsing: a process in autonomous mode whose queue is empty handles
\* one request, and the reflection step that follows is answered with any
\* text of bullets, numbers, whitespace, line breaks and words.
TaskTokens == {"-", BULLET, "1.", "3", WS, NL, "fix", "tidy"}

TaskTexts == UNION { [1..n -> TaskTokens] : n \in 0..MaxReplyLen }

InitTasks ==
    /\ pending_bash_code = << >>
    /\ pending_python_code = << >>
    /\ pending_self_mod = << >>
    /\ pending_code_source = ""
    /\ ai_memory = {}
    /\ learned_patterns = << >>
    /\ custom_functions = {}
    /\ evolution_log = << >>
    /\ autonomous_mode = TRUE
    /\ autonomous_task_queue = << >>
    /\ project_state = 0
    /\ memory_file = NoFile
    /\ temp_files = 0
    /\ running = 0
    /\ toggles = 1
    /\ starts = 0
    /\ last_key = "none"
    /\ trace = << >>

Reflect ==
    /\ Idle
    /\ \E response \in TaskTexts :
           Commit(handle_submission(St, "force_gpt", << "go" >>, NotCalled,
                                    Returned(<< "note" >>), Returned(response), "exit0"),
                  "force_gpt")

NextTasks == Reflect

SpecTasks == InitTasks /\ [][NextTasks]_vars

\* Empty spans: for each kind a reply with a block, a reply whose close
\* marker comes first and a reply with only whitespace between the markers.
SpanReplies ==
    UNION { { << OpenMarker(kind), "x=1", CloseMarker(kind) >>,
              << CloseMarker(kind), "x=1", OpenMarker(kind) >>,
              << OpenMarker(kind), WS, NL, CloseMarker(kind) >> } : kind \in Kinds }

NextSpan ==
    \/ \E action_type \in {"force_gpt", "force_claude"} :
           Submit(action_type, Returns(SpanReplies), MaxSpanRequests)
    \/ KeyB({"exit0"})
    \/ KeyP({"exit0"})
    \/ KeyS({"ok"})
    \/ KeyD
    \/ AwaitKey

SpecSpan == Init /\ [][NextSpan]_vars

\* Provenance: GPT-4o is asked for self-modifications, Claude for scripts
\* and for plain answers.
PatternReplies ==
    { << "@SelfMod", "{np}", "@EndSelfMod" >>,
      << "@SelfMod", "{mu,np,nf}", "@EndSelfMod" >> }

PlainReplies ==
    { << "@Python", "print(1)", "@EndPython" >>,
      << "@Bash", "ls", "@EndBash" >>,
      << "note" >> }

NextProvenance ==
    \/ Submit("force_gpt", Returns(PatternReplies), MaxProvenanceRequests)
    \/ Submit("force_claude", Returns(PlainReplies), MaxProvenanceRequests)
    \/ KeyS({"ok"})
    \/ KeyP({"exit0"})
    \/ KeyD
    \/ AwaitKey

SpecProvenance == Init /\ [][NextProvenance]_vars

----------------------------------------------------------------------------
(* Properties.  They read the trace of the keyed action that ran last.     *)

Events(op) == { i \in 1..Len(trace) : trace[i].op = op }

Said(message) == \E i \in Events("say") : trace[i].msg = message

\* The runs (or applies) of a kind in the last action.
Runs(kind) == { i \in Events("exec") : trace[i].kind = kind }

\* The part of a request's trace before its project-state entry: routing,
\* without the autonomous step that may follow.
RequestPart == { i \in 1..Len(trace) : \E j \in Events("project_state") : i < j }

----------------------------------------------------------------------------
\* C1: whenever run_python_code or run_bash_code is invoked with a non-empty
\* slot, that slot is empty when the operation returns, whatever the outcome
\* (exit code 0, nonzero exit code, timeout, launch failure), and the
\* artifact is run at most once per staging: an action runs a kind at most
\* once, and no body is left in the slot to be run again.
C1_RunClearsSlot ==
    /\ Runs("python") # {} => pending_python_code = << >>
    /\ Runs("bash") # {} => pending_bash_code = << >>
    /\ Cardinality(Runs("python")) <= 1
    /\ Cardinality(Runs("bash")) <= 1
    /\ last_key = "P" => pending_python_code = << >>
    /\ last_key = "B" => pending_bash_code = << >>

\* A script-A run timed out, and a script-B run failed to launch.
C1_Witness ==
    /\ last_key = "P"
    /\ \E i \in Runs("python") :
           trace[i].outcome = "timeout" /\ trace[i].body # << >>

----------------------------------------------------------------------------
\* C2: every script-A execution that created a temporary file has deleted
\* it by the time run_python_code returns, on every path; no temporary file
\* remains after any sequence of executions.
C2_NoTempFileRemains == temp_files = 0

----------------------------------------------------------------------------
\* C3: in smart orchestration, when the decision parses but its action is
\* none of respond_to_user, delegate_to_gpt, delegate_to_claude (a missing
\* action included), or when it does not parse, the request is reported as
\* an error and not routed further: no specialist is called, the extractor
\* is not run and nothing is staged.
KnownActions == {"respond_to_user", "delegate_to_gpt", "delegate_to_claude"}

C3_UnknownActionIsAnError ==
    (/\ last_key = "orchestrate"
     /\ \E i \in Events("decision") : trace[i].action \notin KnownActions)
    => /\ Said("Error parsing decision")
       /\ \A i \in RequestPart :
              /\ trace[i].op \notin {"extract", "stage"}
              /\ trace[i].op = "call" => trace[i].who = "gemini"

----------------------------------------------------------------------------
\* C4: the only execution without its own keyed action (P, B or S) is the
\* autonomous task step running the script-A slot, and only when the slot
\* is non-empty, its body contains 'print' and its length is below 100;
\* script-B is run only by B and a self-modification applied only by S.
C4_OnlyAutoExecutionIsSafePython ==
    /\ Runs("bash") # {} => last_key = "B"
    /\ Runs("selfmod") # {} => last_key = "S"
    /\ \A i \in Runs("python") :
           last_key # "P" =>
               /\ \E j \in 1..(i - 1) :
                      /\ trace[j].op = "say"
                      /\ trace[j].msg = "Autonomous Agent executing task"
               /\ trace[i].body # << >>
               /\ HasPrint(trace[i].body)
               /\ StrLen(trace[i].body) < AutoThreshold

\* An autonomous task step ran script-A while script-B and a
\* self-modification stayed staged.
C4_Witness ==
    /\ last_key # "P"
    /\ Runs("python") # {}
    /\ pending_bash_code # << >>
    /\ pending_self_mod # << >>

----------------------------------------------------------------------------
\* The Memory Bundle as it is now.
CurrentBundle ==
    [ memory |-> ai_memory, patterns |-> learned_patterns,
      functions |-> custom_functions, evolution |-> evolution_log ]

Applied == last_key = "S" /\ Runs("selfmod") # {}

\* C5 as stated: whenever apply_self_modification is invoked with a
\* non-empty slot, on return the slot is empty and the Memory Bundle has
\* been written to persistent storage, in every branch.
C5_AppliedIsPersisted ==
    Applied =>
        /\ pending_self_mod = << >>
        /\ memory_file = [state |-> "saved", data |-> CurrentBundle]

\* C5 as amended: on return the slot is empty and the operation has ended
\* with one attempt to write the Memory Bundle; storage holds the bundle as
\* it is on return when that write succeeded, and a failed write has been
\* reported as a warning.
C5_AppliedIsClearedAndSaveAttempted ==
    Applied =>
        /\ pending_self_mod = << >>
        /\ Len(trace) >= 2
        /\ trace[Len(trace) - 1].op = "save"
        /\ trace[Len(trace) - 1].outcome = "ok"
               => memory_file = [state |-> "saved", data |-> CurrentBundle]
        /\ trace[Len(trace) - 1].outcome # "ok"
               => trace[Len(trace)] = [op |-> "say", msg |-> "Could not save AI memory"]

\* Raw code that raised after changing the memory mapping was applied, and
\* the bundle it left is in storage.
C5_Witness ==
    /\ Applied
    /\ Said("Self-modification failed")
    /\ ai_memory # {}
    /\ memory_file = [state |-> "saved", data |-> CurrentBundle]

----------------------------------------------------------------------------
\* C6: whenever the staged self-modification body parses as a JSON value,
\* apply_self_modification appends exactly one evolution-log entry, of type
\* self_modification, whichever of memory_update, new_pattern and
\* new_function are present.
C6_StructuredAlwaysLogs ==
    [][ (last_key' = "S" /\ pending_self_mod # << >> /\ IsJson(pending_self_mod))
        => /\ Len(evolution_log') = Len(evolution_log) + 1
           /\ SubSeq(evolution_log', 1, Len(evolution_log)) = evolution_log
           /\ evolution_log'[Len(evolution_log')].type = "self_modification"
      ]_vars

----------------------------------------------------------------------------
\* C7: applying a structured record whose only field is new_pattern
\* lengthens patterns by exactly one entry, carrying that pattern text, and
\* evolution_log by exactly one entry, and leaves the memory mapping and the
\* functions table as they were.
OnlyNewPattern == << "{np}" >>

C7_OnlyNewPattern ==
    [][ (last_key' = "S" /\ pending_self_mod = OnlyNewPattern)
        => /\ Len(learned_patterns') = Len(learned_patterns) + 1
           /\ SubSeq(learned_patterns', 1, Len(learned_patterns)) = learned_patterns
           /\ learned_patterns'[Len(learned_patterns')].pattern
                  = JsonValue("{np}").new_pattern
           /\ Len(evolution_log') = Len(evolution_log) + 1
           /\ SubSeq(evolution_log', 1, Len(evolution_log)) = evolution_log
           /\ ai_memory' = ai_memory
           /\ custom_functions' = custom_functions
      ]_vars

\* A new_pattern-only record was applied on a bundle whose memory mapping
\* and functions table were not empty.
C7_Witness ==
    /\ Applied
    /\ \E i \in Runs("selfmod") : trace[i].body = OnlyNewPattern
    /\ ai_memory # {}
    /\ custom_functions # {}
    /\ Len(learned_patterns) >= 2

----------------------------------------------------------------------------
\* The text the extractor was handed in the last action, with the slots it
\* found.
Given == { trace[i] : i \in Events("input") }

Slot(kind) ==
    CASE kind = "bash" -> pending_bash_code
      [] kind = "python" -> pending_python_code
      [] kind = "selfmod" -> pending_self_mod

Found(inp, kind) ==
    CASE kind = "bash" -> inp.bash
      [] kind = "python" -> inp.python
      [] kind = "selfmod" -> inp.selfmod

\* text[i] .. text[j] is a block of the kind: an open marker, a body free
\* of the kind's markers, a close marker.
Block(text, kind, i, j) ==
    /\ i < j
    /\ text[i] = OpenMarker(kind)
    /\ text[j] = CloseMarker(kind)
    /\ \A k \in (i + 1)..(j - 1) :
           text[k] \notin {OpenMarker(kind), CloseMarker(kind)}

\* C8: for every text containing a well-formed block
\* '@Python <body> @EndPython', whatever precedes or follows the block,
\* extract_and_store_code sets the script-A slot to exactly the
\* whitespace-trimmed body of that block.
C8_PythonBlockIsStaged ==
    \A inp \in Given :
        \A i, j \in 1..Len(inp.text) :
            Block(inp.text, "python", i, j)
                => pending_python_code = Strip(SubSeq(inp.text, i + 1, j - 1))

----------------------------------------------------------------------------
\* C9: for each kind independently, when the text lacks the open marker or
\* the close marker of the kind, the kind's slot keeps its previous content
\* and nothing of the kind is staged; whether a kind is staged from a text
\* is decided by the kind's own two markers only.
Lacks(text, kind) ==
    ~Contains(text, OpenMarker(kind)) \/ ~Contains(text, CloseMarker(kind))

StagedKinds == { trace[i].kind : i \in Events("stage") }

C9_MissingMarkerKeepsSlot ==
    \A inp \in Given :
        \A kind \in Kinds :
            /\ Lacks(inp.text, kind)
                   => Slot(kind) = Found(inp, kind) /\ kind \notin StagedKinds
            /\ ~Lacks(inp.text, kind) => kind \in StagedKinds

\* A text with a script-B block and an unclosed @Python: script-B is
\* staged, and script-A and the self-modification keep what they held.
C9_Witness ==
    \E inp \in Given :
        /\ Contains(inp.text, "@Python")
        /\ Lacks(inp.text, "python")
        /\ inp.python # << >>
        /\ pending_python_code = inp.python
        /\ inp.selfmod # << >>
        /\ pending_self_mod = inp.selfmod
        /\ StagedKinds = {"bash"}
        /\ pending_bash_code # inp.bash

----------------------------------------------------------------------------
\* C10: each pending slot holds one body and changes only in three ways:
\* staging an artifact of its kind replaces the content with the new body,
\* executing or applying its kind empties it, and clear-pending empties the
\* three slots and the provenance.  Executing or applying one kind leaves
\* the other two slots unchanged, and clear-pending leaves the Memory
\* Bundle, the task queue and the project state unchanged.
Touching(tr, kind) ==
    { i \in 1..Len(tr) : tr[i].op \in {"stage", "exec"} /\ tr[i].kind = kind }

Last(S) == CHOOSE i \in S : \A j \in S : j <= i

SlotFollowsTrace(tr, kind, before, after) ==
    IF Touching(tr, kind) = {}
    THEN after = before
    ELSE LET e == tr[Last(Touching(tr, kind))]
         IN  IF e.op = "stage" THEN after = e.body ELSE after = << >>

C10_SlotsChangeOnlyThreeWays ==
    [][ IF last_key' = "D"
        THEN /\ pending_bash_code' = << >>
             /\ pending_python_code' = << >>
             /\ pending_self_mod' = << >>
             /\ pending_code_source' = ""
             /\ UNCHANGED << ai_memory, learned_patterns, custom_functions,
                             evolution_log, autonomous_task_queue, project_state >>
        ELSE /\ SlotFollowsTrace(trace', "bash", pending_bash_code, pending_bash_code')
             /\ SlotFollowsTrace(trace', "python", pending_python_code,
                                 pending_python_code')
             /\ SlotFollowsTrace(trace', "selfmod", pending_self_mod, pending_self_mod')
             /\ last_key' = "B" => UNCHANGED << pending_python_code, pending_self_mod >>
             /\ last_key' = "P" => UNCHANGED << pending_bash_code, pending_self_mod >>
             /\ last_key' = "S" => UNCHANGED << pending_bash_code, pending_python_code >>
      ]_vars

\* Script-A was staged over another script-A body, which is gone, while
\* the other two slots held artifacts.
C10_Witness ==
    /\ \E i \in Events("stage") :
           /\ trace[i].kind = "python"
           /\ trace[i].replaced # << >>
           /\ trace[i].replaced # trace[i].body
           /\ pending_python_code = trace[i].body
    /\ pending_bash_code # << >>
    /\ pending_self_mod # << >>

----------------------------------------------------------------------------
\* The autonomous-loop steps of the last action: each step opens with one
\* of two messages (lines 47 and 79).
AutoSteps ==
    { i \in Events("say") :
          trace[i].msg \in { "Autonomous Agent executing task",
                             "Autonomous Agent thinking of new improvements" } }

Submitted == last_key \in ActionTypes

\* C11: every handle_submission call with non-empty input, for every
\* action type and on every path (routing, decision-parse error, backend
\* error text), appends exactly one entry to project_state, which never
\* shrinks, and then runs exactly one autonomous-loop step if and only if
\* autonomous_mode is enabled.
C11_OneEntryThenOneStep ==
    [][ /\ project_state' >= project_state
        /\ last_key' \in ActionTypes =>
               /\ project_state' = project_state + 1
               /\ autonomous_mode' = autonomous_mode
               /\ LET tr == trace'
                      entries == { i \in 1..Len(tr) : tr[i].op = "project_state" }
                      steps == { i \in 1..Len(tr) :
                                     /\ tr[i].op = "say"
                                     /\ tr[i].msg \in
                                            { "Autonomous Agent executing task",
                                              "Autonomous Agent thinking of new improvements" } }
                  IN  /\ Cardinality(entries) = 1
                      /\ Cardinality(steps) = IF autonomous_mode THEN 1 ELSE 0
                      /\ \A i \in steps : \A j \in entries : j < i
        /\ last_key' \notin ActionTypes => project_state' = project_state
      ]_vars

\* A smart-orchestration request whose decision did not parse was entered
\* in project_state and followed by an autonomous step.
C11_Witness ==
    /\ last_key = "orchestrate"
    /\ Said("Error parsing decision")
    /\ Events("project_state") # {}
    /\ autonomous_mode
    /\ AutoSteps # {}

----------------------------------------------------------------------------
\* C12: an autonomous-loop step that runs with autonomous mode enabled and
\* an empty task queue takes the self-reflection path only: no task is
\* popped, the extractor is not run on the reply, no pending slot or
\* provenance changes, nothing is executed; besides the transcript it
\* changes only the queue, by appending the tasks parsed from the reply.
Reflection(tr) ==
    { i \in 1..Len(tr) :
          tr[i] = [op |-> "say", msg |-> "Autonomous Agent thinking of new improvements"] }

C12_EmptyQueueOnlyReflects ==
    [][ LET tr == trace'
        IN  /\ (last_key' \in ActionTypes /\ autonomous_mode
                    /\ autonomous_task_queue = << >>)
               => /\ Cardinality(Reflection(tr)) = 1
                  /\ \A i \in 1..Len(tr) :
                         tr[i] # [op |-> "say", msg |-> "Autonomous Agent executing task"]
                  /\ \A i \in Reflection(tr) : \A j \in (i + 1)..Len(tr) :
                         \/ (tr[j].op = "call" /\ tr[j].who = "gpt")
                         \/ tr[j] = [op |-> "say", msg |-> "Autonomous Agent queued new tasks"]
                  /\ \E r \in ScriptReplies :
                         autonomous_task_queue' = autonomous_task_queue \o ParseTasks(r)
                  /\ UNCHANGED << ai_memory, learned_patterns, custom_functions,
                                  evolution_log, autonomous_mode, memory_file,
                                  temp_files >>
                  /\ (\A i \in 1..Len(tr) : tr[i].op # "stage")
                         => UNCHANGED << pending_bash_code, pending_python_code,
                                         pending_self_mod, pending_code_source >>
            /\ Reflection(tr) # {}
               => /\ last_key' \in ActionTypes
                  /\ autonomous_mode
                  /\ autonomous_task_queue = << >>
      ]_vars

\* A reflection step queued two tasks after a request that staged nothing,
\* while script-A stayed staged with its provenance.
C12_Witness ==
    /\ Submitted
    /\ Reflection(trace) # {}
    /\ Events("stage") = {}
    /\ Len(autonomous_task_queue) = 1
    /\ pending_python_code # << >>
    /\ pending_code_source = "Autonomous-Agent"

----------------------------------------------------------------------------
\* C13: with file writes that succeed, after every completed keyed action
\* loading the persisted bundle yields memory, patterns, functions and
\* evolution_log equal field for field to the values in memory; when no
\* file exists loading yields four empty fields and reports no error.
EmptyBundle ==
    [ memory |-> {}, patterns |-> << >>, functions |-> {}, evolution |-> << >> ]

C13_LoadYieldsBundle ==
    LET loaded == load_ai_memory(Fresh(St), "ok")
    IN  /\ Bundle(loaded) = CurrentBundle
        /\ \A i \in 1..Len(loaded.trace) :
               loaded.trace[i].msg # "Could not load AI memory"
        /\ memory_file = NoFile => Bundle(loaded) = EmptyBundle

\* A restarted process loaded a bundle with a memory entry, two patterns
\* and its evolution log.
C13_Witness ==
    /\ last_key = "start"
    /\ Said("AI memory loaded successfully")
    /\ ai_memory # {}
    /\ Len(learned_patterns) = 2
    /\ evolution_log # << >>

----------------------------------------------------------------------------
\* C14: when a script-A or script-B execution exceeds the time limit, the
\* spawned process and every descendant it started are terminated by the
\* time the run operation returns, and the reported outcome is the distinct
\* 'timed out' outcome, neither success nor the generic execution error.
C14_TimeoutTerminatesTree ==
    /\ running = 0
    /\ \A i \in Events("exec") :
           (trace[i].kind \in {"bash", "python"} /\ TimedOut(trace[i].outcome))
           => /\ i < Len(trace)
              /\ trace[i + 1].op = "say"
              /\ trace[i + 1].msg \in { "Bash execution timed out",
                                        "Python execution timed out" }
              /\ \A j \in (i + 1)..Len(trace) :
                     trace[j].op = "say" =>
                         trace[j].msg \notin
                             { "Bash execution successful", "Bash execution error",
                               "Python execution successful", "Python execution error" }

----------------------------------------------------------------------------
\* C15: a backend call never propagates a failure to its caller: when the
\* provider fails, call_gemini, call_gpt and call_claude return the text
\* '<Backend> Error: <message>' of the backend called, and the keyed action
\* that made the call runs to completion: a request reports its outcome in
\* the transcript, enters project_state and is followed by the autonomous
\* step when the mode is on; a task step reports the response; a reflection
\* step queues nothing.
ErrorPrefix ==
    [gemini |-> "Gemini Error: ", gpt |-> "GPT Error: ", claude |-> "Claude Error: "]

Failed(tr) == { i \in 1..Len(tr) : tr[i].op = "call" /\ tr[i].raised }

C15_BackendFailureIsAText ==
    [][ LET tr == trace'
            entries == { i \in 1..Len(tr) : tr[i].op = "project_state" }
            steps == { i \in 1..Len(tr) :
                           /\ tr[i].op = "say"
                           /\ tr[i].msg \in
                                  { "Autonomous Agent executing task",
                                    "Autonomous Agent thinking of new improvements" } }
        IN  \A i \in Failed(tr) :
                /\ tr[i].returned = << ErrorPrefix[tr[i].who] >> \o TextOf(Raised)
                /\ last_key' \in ActionTypes \cup {"E"}
                /\ last_key' \in ActionTypes =>
                       /\ project_state' = project_state + 1
                       /\ Cardinality(entries) = 1
                       /\ Cardinality(steps) = IF autonomous_mode THEN 1 ELSE 0
                       /\ \A j \in entries :
                              i < j => \E k \in (i + 1)..(j - 1) : tr[k].op = "say"
                /\ \A j \in steps :
                       j < i =>
                           IF tr[j].msg = "Autonomous Agent executing task"
                           THEN \E k \in (i + 1)..Len(tr) :
                                    tr[k] = [op |-> "say",
                                             msg |-> "Autonomous Agent Response"]
                           ELSE autonomous_task_queue' = autonomous_task_queue
      ]_vars

\* A forced Claude request whose provider failed was entered in
\* project_state, and the reflection step that followed failed in GPT.
C15_Witness ==
    /\ last_key = "force_claude"
    /\ \E i \in Failed(trace) : \E j \in Events("project_state") :
           /\ i < j
           /\ trace[i].returned = << "Claude Error: ", "boom" >>
    /\ \E i \in Failed(trace) : \E j \in AutoSteps :
           /\ j < i
           /\ trace[i].who = "gpt"
           /\ trace[i].returned = << "GPT Error: ", "boom" >>

----------------------------------------------------------------------------
\* C16: the provenance field is the source of the most recent extraction
\* that staged an artifact of any kind, or empty after clear-pending with
\* no later staging: an action that stages sets it to the source of its
\* last staging extraction, clear-pending empties it, and every other
\* action leaves it alone.  A pattern learned through new_pattern records
\* as learned_from the provenance current when it is applied.
Stagings(tr) == { i \in 1..Len(tr) : tr[i].op = "stage" }

\* The source of the extraction that staged at position i.
SourceOf(tr, i) == tr[Last({ j \in 1..i : tr[j].op = "extract" })].who

C16_ProvenanceIsLastStagingSource ==
    [][ LET tr == trace'
        IN  /\ Stagings(tr) # {}
                   => pending_code_source' = SourceOf(tr, Last(Stagings(tr)))
            /\ (Stagings(tr) = {} /\ last_key' = "D") => pending_code_source' = ""
            /\ (Stagings(tr) = {} /\ last_key' # "D")
                   => pending_code_source' = pending_code_source
            /\ last_key' = "S"
                   => /\ Len(learned_patterns') >= Len(learned_patterns)
                      /\ \A k \in (Len(learned_patterns) + 1)..Len(learned_patterns') :
                             learned_patterns'[k].learned_from = pending_code_source
      ]_vars

\* A self-modification that only GPT-4o produces was applied after Claude
\* had staged a script: the pattern learned names Claude.
C16_Witness ==
    /\ Applied
    /\ pending_code_source = "Claude"
    /\ learned_patterns # << >>
    /\ learned_patterns[Len(learned_patterns)].learned_from = "Claude"

----------------------------------------------------------------------------
\* C17: evolution_log is append-only with one entry per successful
\* self-modification: no action removes or alters an entry; an apply that
\* succeeds (the structured record was applied, or the raw code ran
\* without error) appends exactly one entry; an apply that fails, a script
\* execution, a staging and a clear append none.
ApplyFailed(tr) ==
    \E i \in 1..Len(tr) :
        /\ tr[i].op = "say"
        /\ tr[i].msg \in {"Self-modification error", "Self-modification failed"}

C17_EvolutionLogAppendOnly ==
    [][ /\ Len(evolution_log') >= Len(evolution_log)
        /\ SubSeq(evolution_log', 1, Len(evolution_log)) = evolution_log
        /\ Len(evolution_log') =
               IF last_key' = "S" /\ pending_self_mod # << >> /\ ~ApplyFailed(trace')
               THEN Len(evolution_log) + 1
               ELSE Len(evolution_log)
        /\ Len(evolution_log') > Len(evolution_log) =>
               evolution_log'[Len(evolution_log')] =
                   [ type |-> IF IsJson(pending_self_mod)
                              THEN "self_modification" ELSE "code_execution",
                     description |-> IF IsJson(pending_self_mod)
                                     THEN pending_self_mod
                                     ELSE Prefix100(pending_self_mod),
                     source |-> pending_code_source ]
      ]_vars

\* Raw code ran without error and its entry followed the entry of an
\* earlier structured record, which is as it was.
C17_Witness ==
    /\ Applied
    /\ Said("Self-modification code executed successfully")
    /\ Len(evolution_log) = 2
    /\ evolution_log[1].type = "self_modification"
    /\ evolution_log[2].type = "code_execution"

----------------------------------------------------------------------------
\* C18: in smart orchestration the decision backend is called exactly once
\* per request, and with a well-formed decision (an object with one of
\* the three actions and a prompt): respond_to_user displays the prompt
\* and feeds it to the extractor with provenance 'Orchestrator' without
\* calling a specialist; delegate_to_gpt / delegate_to_claude calls the
\* named specialist, and no other, exactly once with the prompt and feeds
\* the reply of that call to the extractor with that specialist as
\* provenance.
WellFormed(json_str) ==
    /\ IsDecisionJson(json_str)
    /\ DecisionValue(json_str[1]).type = "object"
    /\ DecisionValue(json_str[1]).has_action
    /\ DecisionValue(json_str[1]).action \in KnownActions
    /\ DecisionValue(json_str[1]).has_prompt

Specialist ==
    [ delegate_to_gpt |-> [who |-> "gpt", source |-> "GPT-4o"],
      delegate_to_claude |-> [who |-> "claude", source |-> "Claude"] ]

Calls(who) == { i \in RequestPart : trace[i].op = "call" /\ trace[i].who = who }

Extractions == { i \in RequestPart : trace[i].op = "extract" }

C18_DecisionIsRouted ==
    last_key = "orchestrate" =>
        /\ Cardinality(Calls("gemini")) = 1
        /\ Cardinality({ i \in RequestPart : trace[i].op = "decision" }) = 1
        /\ \A i \in RequestPart :
               (trace[i].op = "decision" /\ WellFormed(trace[i].json_str)) =>
                   LET decision == DecisionValue(trace[i].json_str[1])
                   IN  /\ Cardinality(Extractions) = 1
                       /\ IF decision.action = "respond_to_user"
                          THEN /\ Calls("gpt") = {}
                               /\ Calls("claude") = {}
                               /\ \E k \in RequestPart :
                                      trace[k] = [op |-> "say",
                                                  msg |-> "Orchestrator Response"]
                               /\ \A e \in Extractions :
                                      /\ trace[e].who = "Orchestrator"
                                      /\ trace[e].text = decision.prompt
                          ELSE LET named == Specialist[decision.action]
                               IN  /\ Cardinality(Calls(named.who)) = 1
                                   /\ Cardinality(Calls("gpt") \cup Calls("claude")) = 1
                                   /\ \A c \in Calls(named.who) : \A e \in Extractions :
                                          /\ i < c
                                          /\ c < e
                                          /\ trace[c].prompt = decision.prompt
                                          /\ trace[e].who = named.source
                                          /\ trace[e].text = trace[c].returned

\* Smart orchestration delegated to Claude, whose reply staged script-A.
C18_Witness ==
    /\ last_key = "orchestrate"
    /\ \E i \in Events("decision") : trace[i].action = "delegate_to_claude"
    /\ \E c \in Calls("claude") : \E e \in Extractions :
           /\ trace[e].text = trace[c].returned
           /\ Contains(trace[e].text, "@Python")
    /\ pending_python_code # << >>
    /\ pending_code_source = "Claude"

----------------------------------------------------------------------------
\* C19: the autonomous loop performs one step per trigger (a handled
\* request, an activation) and none while the mode is off.  A step that
\* finds tasks removes exactly the head of the queue and adds none; tasks
\* are added only by a step that found the queue empty and by the seed
\* appended on activation, at the end.  Deactivation keeps the queue, so
\* after reactivation the tasks left over are executed before the seed.
StepsOf(tr) ==
    { i \in 1..Len(tr) :
          /\ tr[i].op = "say"
          /\ tr[i].msg \in { "Autonomous Agent executing task",
                              "Autonomous Agent thinking of new improvements" } }

PopsOf(tr) == { i \in 1..Len(tr) : tr[i].op = "pop" }

IsPrefix(a, b) == Len(a) <= Len(b) /\ SubSeq(b, 1, Len(a)) = a

C19_OneFifoStepPerTrigger ==
    [][ LET tr == trace'
            activated == last_key' = "E" /\ autonomous_mode'
            triggered == activated \/ (last_key' \in ActionTypes /\ autonomous_mode)
            queue == IF activated THEN Append(autonomous_task_queue, SeedTask)
                     ELSE autonomous_task_queue
        IN  /\ Cardinality(StepsOf(tr)) = IF triggered THEN 1 ELSE 0
            /\ ~triggered => /\ PopsOf(tr) = {}
                             /\ autonomous_task_queue' = autonomous_task_queue
            /\ (triggered /\ queue # << >>)
                   => /\ autonomous_task_queue' = Tail(queue)
                      /\ Cardinality(PopsOf(tr)) = 1
                      /\ \A i \in PopsOf(tr) : tr[i].task = Head(queue)
                      /\ \A i \in StepsOf(tr) :
                             tr[i].msg = "Autonomous Agent executing task"
            /\ (triggered /\ queue = << >>)
                   => /\ PopsOf(tr) = {}
                      /\ IsPrefix(queue, autonomous_task_queue')
                      /\ \A i \in StepsOf(tr) :
                             tr[i].msg = "Autonomous Agent thinking of new improvements"
      ]_vars

\* A reactivation ran a task left over from before the deactivation and
\* left the other one ahead of the new seed.
C19_Witness ==
    /\ last_key = "E"
    /\ autonomous_mode
    /\ \E i \in Events("pop") : trace[i].task = << "fix" >>
    /\ autonomous_task_queue = << << "tidy" >>, SeedTask >>

----------------------------------------------------------------------------
\* The reply the reflection step of the last action received.
Reflected ==
    { trace[i].returned : i \in { c \in Events("call") : \E j \in AutoSteps : j < c } }

\* The tasks a text stands for, read line by line from the line break at
\* position b: a line whose first fragment is '-', the bullet or '1.'
\* stands for the task between its first fragment that is not made of
\* bullet characters, digits, dots and blanks and its last fragment that is
\* not blank (trailing = FALSE) or not made of such characters either
\* (trailing = TRUE); a line without such a fragment stands for no task.
RECURSIVE TasksFrom(_, _, _)
TasksFrom(text, b, trailing) ==
    LET ends == { e \in (b + 1)..(Len(text) + 1) : e = Len(text) + 1 \/ text[e] = NL }
        e == CHOOSE x \in ends : \A y \in ends : x <= y
        line == SubSeq(text, b + 1, e - 1)
        words == { k \in 1..Len(line) : ~Strippable(line[k]) }
        solid == { k \in 1..Len(line) : ~IsSpace(line[k]) }
        first == CHOOSE k \in words : \A j \in words : k <= j
        last == LET S == IF trailing THEN words ELSE solid
                IN  CHOOSE k \in S : \A j \in S : j <= k
        here == IF line # << >> /\ line[1] \in {"-", BULLET, "1."} /\ words # {}
                THEN << SubSeq(line, first, last) >>
                ELSE << >>
    IN  here \o (IF e > Len(text) THEN << >> ELSE TasksFrom(text, e, trailing))

\* C20 as stated: in the self-reflection path every non-blank line that
\* begins with '-', the bullet or '1.' yields one task, with leading and
\* trailing bullet characters and digits stripped; the tasks are appended
\* to the queue in the order of the lines; lines that strip to empty and
\* all other lines yield no task.
C20_TasksStrippedAtBothEnds ==
    \A response \in Reflected : autonomous_task_queue = TasksFrom(response, 0, TRUE)

\* C20 as amended: every line that begins with '-', the bullet or '1.'
\* yields one task, which is the line without its surrounding whitespace
\* and without its leading bullet characters, digits, dots and blanks;
\* what follows the first other character is kept as it is, digits and
\* bullet characters at the end included.  The tasks are appended to the
\* queue in the order of the lines; lines that strip to empty and all other
\* lines yield no task.
C20_TasksStrippedAtTheFront ==
    \A response \in Reflected : autonomous_task_queue = TasksFrom(response, 0, FALSE)

\* Two lines, one starting with '-' and one with '1.', yielded two tasks in
\* the order of the lines.
C20_Witness ==
    /\ Reflected = { << "-", "tidy", NL, "1.", "fix" >> }
    /\ autonomous_task_queue = << << "tidy" >>, << "fix" >> >>

----------------------------------------------------------------------------
\* C21: each execution of a staged script reports exactly one of four
\* outcomes: exit code 0 is reported as success with the captured stdout,
\* a nonzero exit code as failure with the captured stderr, exceeding the
\* time limit as 'timed out', and any other launch failure as an execution
\* error with the error text; a timeout or launch failure never reports
\* stdout or stderr as a success.
RunReport ==
    [ bash |-> [ success |-> "Bash execution successful",
                 failure |-> "Bash execution failed",
                 timeout |-> "Bash execution timed out",
                 error |-> "Bash execution error" ],
      python |-> [ success |-> "Python execution successful",
                   failure |-> "Python execution failed",
                   timeout |-> "Python execution timed out",
                   error |-> "Python execution error" ] ]

\* The process ran to its end with exit code 0.
ExitedWithZero(outcome) == outcome \in {"exit0", "exit0_unlinked"}

LaunchFailed(outcome) == outcome \in {"error", "tmpfile_error"}

C21_RunReportsItsOutcome ==
    \A i \in Events("exec") :
        trace[i].kind \in {"bash", "python"} =>
            LET report == RunReport[trace[i].kind]
                reports == { j \in (i + 1)..Len(trace) :
                                 /\ trace[j].op = "say"
                                 /\ trace[j].msg \in
                                        { report.success, report.failure,
                                          report.timeout, report.error } }
            IN  /\ Cardinality(reports) = 1
                /\ \A j \in reports :
                       /\ ExitedWithZero(trace[i].outcome)
                              => /\ trace[j].msg = report.success
                                 /\ trace[j].shows = "stdout"
                       /\ trace[i].outcome = "nonzero"
                              => /\ trace[j].msg = report.failure
                                 /\ trace[j].shows = "stderr"
                       /\ TimedOut(trace[i].outcome)
                              => trace[j].msg = report.timeout
                       /\ LaunchFailed(trace[i].outcome)
                              => /\ trace[j].msg = report.error
                                 /\ trace[j].shows = "str(e)"

----------------------------------------------------------------------------
\* C22: whenever a text contains both the open and the close marker of a
\* kind, extract_and_store_code overwrites that kind's slot and the
\* provenance even when the extracted span is empty (close marker before
\* the open marker, or only whitespace between them): an artifact of that
\* kind staged before is lost and the slot reads as empty; a run or apply
\* of a kind whose slot is empty reports that nothing is pending and runs
\* nothing.
Positions(text, marker) == { i \in 1..Len(text) : text[i] = marker }

First(S) == CHOOSE i \in S : \A j \in S : i <= j

\* Both markers occur, and the first close marker comes before the first
\* open marker or only whitespace lies between them.
EmptySpan(text, kind) ==
    LET opens == Positions(text, OpenMarker(kind))
        closes == Positions(text, CloseMarker(kind))
    IN  /\ opens # {}
        /\ closes # {}
        /\ \/ First(closes) < First(opens)
           \/ \A k \in (First(opens) + 1)..(First(closes) - 1) : IsSpace(text[k])

NothingPending ==
    [ B |-> [kind |-> "bash", msg |-> "No bash code pending"],
      P |-> [kind |-> "python", msg |-> "No Python code pending"],
      S |-> [kind |-> "selfmod", msg |-> "No self-modification pending"] ]

SlotOf(kind, bash, python, selfmod) ==
    CASE kind = "bash" -> bash
      [] kind = "python" -> python
      [] kind = "selfmod" -> selfmod

C22_EmptySpanOverwrites ==
    [][ LET tr == trace'
            before(kind) == SlotOf(kind, pending_bash_code, pending_python_code,
                                   pending_self_mod)
            after(kind) == SlotOf(kind, pending_bash_code', pending_python_code',
                                  pending_self_mod')
        IN  /\ \A e \in 1..Len(tr) : \A kind \in Kinds :
                   (/\ tr[e].op = "extract"
                    /\ Positions(tr[e].text, OpenMarker(kind)) # {}
                    /\ Positions(tr[e].text, CloseMarker(kind)) # {})
                   => /\ pending_code_source' = tr[e].who
                      /\ \E i \in (e + 1)..Len(tr) :
                             /\ tr[i].op = "stage"
                             /\ tr[i].kind = kind
                             /\ tr[i].replaced = before(kind)
                             /\ tr[i].body = after(kind)
                      /\ EmptySpan(tr[e].text, kind) => after(kind) = << >>
            /\ \A key \in {"B", "P", "S"} :
                   (last_key' = key /\ before(NothingPending[key].kind) = << >>)
                   => /\ tr = << [op |-> "say", msg |-> NothingPending[key].msg] >>
                      /\ UNCHANGED << pending_bash_code, pending_python_code,
                                      pending_self_mod, pending_code_source >>
      ]_vars

\* A reply whose close marker comes first emptied a script-A slot that held
\* an artifact staged by the other backend.
C22_Witness ==
    /\ last_key = "force_claude"
    /\ pending_python_code = << >>
    /\ pending_code_source = "Claude"
    /\ \E e \in Events("extract") : \E i \in Events("stage") :
           /\ EmptySpan(trace[e].text, "python")
           /\ trace[e].text[1] = "@EndPython"
           /\ trace[i].kind = "python"
           /\ trace[i].body = << >>
           /\ trace[i].replaced = << "x=1" >>

----------------------------------------------------------------------------
\* C23: the auto-execution test of an autonomous task step is applied to
\* whatever script-A artifact occupies the slot after the extractor ran on
\* the task reply: the step runs the slot exactly when it is non-empty,
\* contains 'print' and is shorter than 100 characters, whether the task
\* reply staged it or not.  An artifact staged earlier by a backend call
\* the user requested, still awaiting the run/deny decision, is run by a
\* later task step whose reply staged nothing.
TaskSteps(tr) ==
    { i \in 1..Len(tr) :
          tr[i].op = "say" /\ tr[i].msg = "Autonomous Agent executing task" }

PythonStagings(tr) ==
    { i \in 1..Len(tr) : tr[i].op = "stage" /\ tr[i].kind = "python" }

C23_AutoRunTakesTheSlotAsItIs ==
    [][ LET tr == trace'
            slot == IF PythonStagings(tr) # {}
                    THEN tr[Last(PythonStagings(tr))].body
                    ELSE pending_python_code
        IN  \A t \in TaskSteps(tr) :
                LET runs == { i \in (t + 1)..Len(tr) :
                                  tr[i].op = "exec" /\ tr[i].kind = "python" }
                IN  /\ runs # {} <=> /\ slot # << >>
                                     /\ HasPrint(slot)
                                     /\ StrLen(slot) < AutoThreshold
                    /\ \A i \in runs :
                           /\ tr[i].body = slot
                           /\ \A j \in PythonStagings(tr) : j < i
                    /\ pending_python_code' = IF runs # {} THEN << >> ELSE slot
      ]_vars

\* An activation's task step, whose reply staged nothing, ran the script-A
\* artifact that a request to GPT-4o had staged.
C23_Witness ==
    /\ last_key = "E"
    /\ Said("Autonomous Agent executing task")
    /\ Events("stage") = {}
    /\ pending_code_source = "GPT-4o"
    /\ \E i \in Runs("python") : trace[i].body = << "print(99)" >>
    /\ pending_python_code = << >>

----------------------------------------------------------------------------
\* An apply of a body that parsed as JSON reported an error.
StructuredFailure(tr) ==
    /\ pending_self_mod # << >>
    /\ IsJson(pending_self_mod)
    /\ \E i \in 1..Len(tr) : tr[i] = [op |-> "say", msg |-> "Self-modification error"]

\* The changes a record makes before applying it raises: memory_update
\* when it is a mapping, then new_pattern unless memory_update raised.
MemoryChange(v) ==
    IF v.type = "object" /\ "memory_update" \in v.has /\ v.mu_mapping
    THEN v.memory_update ELSE {}

PatternChange(v, source) ==
    IF /\ v.type = "object"
       /\ "new_pattern" \in v.has
       /\ ("memory_update" \in v.has => v.mu_mapping)
    THEN << [pattern |-> v.new_pattern, learned_from |-> source] >>
    ELSE << >>

\* The changes stay in the bundle, nothing is logged, the slot is cleared.
FailureKeepsChanges ==
    LET v == JsonLoads(pending_self_mod)
    IN  /\ ai_memory' = DictUpdate(ai_memory, MemoryChange(v))
        /\ learned_patterns' = learned_patterns \o PatternChange(v, pending_code_source)
        /\ custom_functions' = custom_functions
        /\ evolution_log' = evolution_log
        /\ pending_self_mod' = << >>

Saved(bundle) == [state |-> "saved", data |-> bundle]

====
